---- MODULE Spec2Model ----
(***************************************************************************)
(* Model of src/geoip/app_geoip.py: the in-memory GEOIP catalog, the zone   *)
(* registry, the refresh task and the two script endpoints custom.rsc and   *)
(* geoip.rsc.                                                               *)
(*                                                                         *)
(* A Python str is a sequence of one-character strings, an Optional value   *)
(* is a sequence of length 0 (None) or 1, an IPv4 network is a record       *)
(* [network_address, prefixlen] over an address space of AddrBits bits.     *)
(***************************************************************************)
EXTENDS Integers, Sequences, FiniteSets, TLC

\* ------------------------------------------------------------------------
\* Bounds of the model
\* ------------------------------------------------------------------------

\* Width of the modelled address space (IPv4 has 32 bits).
AddrBits == 3

\* Number of periodic refresh cycles after the initial one.
MaxCycles == 1

\* Number of times one request is sent in a row.
MaxRuns == 2

\* Length of the short list names and prefixes a caller supplies.
MaxNameLen == 3

\* Length of the lists of networks offered to maybe_collapse_networks.
MaxNets == 3

\* Number of entries of a zones document.
MaxZones == 2

\* ------------------------------------------------------------------------
\* State
\* ------------------------------------------------------------------------

VARIABLES
    country_nets,     \* the global _country_nets: country code -> list of networks
    last_refresh_ts,  \* the global _last_refresh_ts: None or Some(time)
    ZONE_DEFS,        \* the global ZONE_DEFS: zone code -> list of country codes
    zones_file,       \* which zone definitions GEOIP_ZONES_FILE holds
    ipv4_url,         \* whether GEOIP_IPV4_URL is set
    ipv4_tar,         \* which archive GEOIP_DOWNLOAD_DIR/all-zones.tar.gz holds
    ipv4_dir,         \* the *.zone files of GEOIP_IPV4_DIR: file stem -> content
    refresh,          \* the refresh task: its place, its locals, the time
    handler,          \* the request handler: its place and its locals
    call              \* a helper function called on its own: arguments and result

vars ==
    << country_nets, last_refresh_ts, ZONE_DEFS, zones_file, ipv4_url, ipv4_tar,
       ipv4_dir, refresh, handler, call >>

\* ------------------------------------------------------------------------
\* Python str helpers
\* ------------------------------------------------------------------------

LowerLetters ==
    << "a", "b", "c", "d", "e", "f", "g", "h", "i", "j", "k", "l", "m",
       "n", "o", "p", "q", "r", "s", "t", "u", "v", "w", "x", "y", "z" >>

UpperLetters ==
    << "A", "B", "C", "D", "E", "F", "G", "H", "I", "J", "K", "L", "M",
       "N", "O", "P", "Q", "R", "S", "T", "U", "V", "W", "X", "Y", "Z" >>

DigitChars == << "0", "1", "2", "3", "4", "5", "6", "7", "8", "9" >>

Range(s) == { s[i] : i \in 1..Len(s) }

IndexOf(s, x) == CHOOSE i \in 1..Len(s) : s[i] = x

Whitespace == { " ", "\t", "\n", "\r" }

None == << >>

Some(v) == << v >>

\* str.lower()
Lower(s) ==
    [ i \in 1..Len(s) |->
        IF s[i] \in Range(UpperLetters)
        THEN LowerLetters[IndexOf(UpperLetters, s[i])]
        ELSE s[i] ]

\* str.upper()
Upper(s) ==
    [ i \in 1..Len(s) |->
        IF s[i] \in Range(LowerLetters)
        THEN UpperLetters[IndexOf(LowerLetters, s[i])]
        ELSE s[i] ]

RECURSIVE LStrip(_)
LStrip(s) ==
    IF s # << >> /\ Head(s) \in Whitespace THEN LStrip(Tail(s)) ELSE s

RECURSIVE RStrip(_)
RStrip(s) ==
    IF s # << >> /\ s[Len(s)] \in Whitespace
    THEN RStrip(SubSeq(s, 1, Len(s) - 1))
    ELSE s

\* str.strip()
Strip(s) == RStrip(LStrip(s))

\* str.isalpha() on ASCII text
IsAlpha(s) ==
    /\ Len(s) > 0
    /\ \A i \in 1..Len(s) : s[i] \in Range(LowerLetters) \cup Range(UpperLetters)

\* ord() of the characters the model uses (ASCII)
Ord(ch) ==
    IF ch \in Range(DigitChars) THEN 47 + IndexOf(DigitChars, ch)
    ELSE IF ch \in Range(UpperLetters) THEN 64 + IndexOf(UpperLetters, ch)
    ELSE IF ch \in Range(LowerLetters) THEN 96 + IndexOf(LowerLetters, ch)
    ELSE CASE ch = "\t" -> 9
           [] ch = "\n" -> 10
           [] ch = "\r" -> 13
           [] ch = " " -> 32
           [] ch = "!" -> 33
           [] ch = "-" -> 45
           [] ch = "." -> 46
           [] ch = "/" -> 47
           [] ch = "_" -> 95
           [] OTHER -> 127

\* str < str
RECURSIVE StrLess(_, _)
StrLess(a, b) ==
    IF b = << >> THEN FALSE
    ELSE IF a = << >> THEN TRUE
    ELSE IF Ord(Head(a)) # Ord(Head(b)) THEN Ord(Head(a)) < Ord(Head(b))
    ELSE StrLess(Tail(a), Tail(b))

\* (SortedStrsDescending gives them from the last to the first.)
RECURSIVE SortedStrsDescending(_)
SortedStrsDescending(S) ==
    IF S = {} THEN << >>
    ELSE LET m == CHOOSE x \in S : \A y \in S \ {x} : StrLess(y, x)
         IN  << m >> \o SortedStrsDescending(S \ {m})

\* sorted() of a collection of distinct str
RECURSIVE SortedStrs(_)
SortedStrs(S) ==
    IF S = {} THEN << >>
    ELSE LET m == CHOOSE x \in S : \A y \in S \ {x} : StrLess(x, y)
         IN  << m >> \o SortedStrs(S \ {m})

\* str(int)
RECURSIVE Digits(_)
Digits(n) ==
    IF n < 10 THEN << DigitChars[n + 1] >>
    ELSE Digits(n \div 10) \o << DigitChars[(n % 10) + 1] >>

\* the text of a str
RECURSIVE Join(_)
Join(s) == IF s = << >> THEN "" ELSE Head(s) \o Join(Tail(s))

\* ------------------------------------------------------------------------
\* ipaddress.IPv4Network
\* ------------------------------------------------------------------------

Pow2(n) == 2 ^ n

AddrSpace == Pow2(AddrBits)

Net(a, p) == [ network_address |-> a, prefixlen |-> p ]

NumAddresses(n) == Pow2(AddrBits - n.prefixlen)

BroadcastAddress(n) == n.network_address + NumAddresses(n) - 1

\* int(net.netmask)
Netmask(n) == AddrSpace - NumAddresses(n)

\* net.supernet(): one bit shorter, the /0 network is its own supernet
Supernet(n) ==
    IF n.prefixlen = 0 THEN n
    ELSE Net(n.network_address - (n.network_address % Pow2(AddrBits - n.prefixlen + 1)),
             n.prefixlen - 1)

\* net.with_prefixlen
WithPrefixlen(n) == Digits(n.network_address) \o << "/" >> \o Digits(n.prefixlen)

\* IPv4Network.__lt__: by network address, then by netmask
NetLess(a, b) ==
    \/ a.network_address < b.network_address
    \/ /\ a.network_address = b.network_address
       /\ a.prefixlen < b.prefixlen

\* A line of text offered to ipaddress.ip_network(line, strict=False):
\*   kind "cidr"  an IPv4 address and a prefix length (host bits may be set)
\*   kind "addr"  a bare IPv4 address
\*   kind "v6"    a valid IPv6 network
\*   kind "junk"  anything that raises ValueError
\*   kind "blank" empty after strip()
Line(kind, a, p) == [ kind |-> kind, addr |-> a, len |-> p ]

CidrLine(a, p) == Line("cidr", a, p)

AddrLine(a) == Line("addr", a, 0)

V6Line == Line("v6", 0, 0)

JunkLine == Line("junk", 0, 0)

BlankLine == Line("blank", 0, 0)

\* (ParseIPv4LineAnyFamily takes an IPv6 network for the IPv4 network of
\* every address.)
ParseIPv4LineAnyFamily(line) ==
    IF line.kind = "blank" THEN None
    ELSE IF line.kind = "cidr" /\ line.addr \in 0..(AddrSpace - 1) /\ line.len \in 0..AddrBits
    THEN Some(Net(line.addr - (line.addr % Pow2(AddrBits - line.len)), line.len))
    ELSE IF line.kind = "addr" /\ line.addr \in 0..(AddrSpace - 1)
    THEN Some(Net(line.addr, AddrBits))
    ELSE IF line.kind = "v6" THEN Some(Net(0, 0))
    ELSE None

\* One pass of the line loops of parse_custom_cidrs and
\* load_country_nets_from_disk: None when the line is skipped.
ParseIPv4Line(line) ==
    IF line.kind = "blank" THEN None
    ELSE IF line.kind = "cidr" /\ line.addr \in 0..(AddrSpace - 1) /\ line.len \in 0..AddrBits
    THEN Some(Net(line.addr - (line.addr % Pow2(AddrBits - line.len)), line.len))
    ELSE IF line.kind = "addr" /\ line.addr \in 0..(AddrSpace - 1)
    THEN Some(Net(line.addr, AddrBits))
    ELSE None

RECURSIVE ParseLines(_)
ParseLines(lines) ==
    IF lines = << >> THEN << >>
    ELSE ParseIPv4Line(Head(lines)) \o ParseLines(Tail(lines))

\* parse_custom_cidrs: raw is None or Some(sequence of lines)
parse_custom_cidrs(raw) ==
    IF raw = None \/ \A i \in 1..Len(raw[1]) : raw[1][i].kind = "blank"
    THEN << >>
    ELSE ParseLines(raw[1])

\* ------------------------------------------------------------------------
\* maybe_collapse_networks
\* ------------------------------------------------------------------------

\* sorted(seq, key=lambda n: int(n.network_address)): stable
RECURSIVE InsertByAddress(_, _)
InsertByAddress(sorted, n) ==
    IF sorted = << >> THEN << n >>
    ELSE IF Head(sorted).network_address <= n.network_address
    THEN << Head(sorted) >> \o InsertByAddress(Tail(sorted), n)
    ELSE << n >> \o sorted

RECURSIVE SortedByAddress(_)
SortedByAddress(nets) ==
    IF nets = << >> THEN << >>
    ELSE InsertByAddress(SortedByAddress(SubSeq(nets, 1, Len(nets) - 1)), nets[Len(nets)])

\* (MergeSubnetsOnce merges two halves and does not offer their supernet for
\* a further merge.)
RECURSIVE MergeSubnetsOnce(_, _)
MergeSubnetsOnce(to_merge, subnets) ==
    IF to_merge = << >> THEN subnets
    ELSE LET net == to_merge[Len(to_merge)]
             rest == SubSeq(to_merge, 1, Len(to_merge) - 1)
             supernet == Supernet(net)
         IN  IF supernet \notin DOMAIN subnets
             THEN MergeSubnetsOnce(rest, [ k \in DOMAIN subnets \cup {supernet} |->
                                             IF k = supernet THEN net ELSE subnets[k] ])
             ELSE IF subnets[supernet] # net
             THEN MergeSubnetsOnce(rest, [ k \in DOMAIN subnets |->
                                             IF k = supernet THEN supernet ELSE subnets[k] ])
             ELSE MergeSubnetsOnce(rest, subnets)

\* ipaddress._collapse_addresses_internal, first loop: to_merge is a stack,
\* subnets maps a supernet to the one subnet seen under it.
RECURSIVE MergeSubnets(_, _)
MergeSubnets(to_merge, subnets) ==
    IF to_merge = << >> THEN subnets
    ELSE LET net == to_merge[Len(to_merge)]
             rest == SubSeq(to_merge, 1, Len(to_merge) - 1)
             supernet == Supernet(net)
         IN  IF supernet \notin DOMAIN subnets
             THEN MergeSubnets(rest, [ k \in DOMAIN subnets \cup {supernet} |->
                                         IF k = supernet THEN net ELSE subnets[k] ])
             ELSE IF subnets[supernet] # net
             THEN MergeSubnets(Append(rest, supernet),
                               [ k \in DOMAIN subnets \ {supernet} |-> subnets[k] ])
             ELSE MergeSubnets(rest, subnets)

\* sorted() of a set of networks by IPv4Network.__lt__
RECURSIVE SortedNets(_)
SortedNets(S) ==
    IF S = {} THEN << >>
    ELSE LET m == CHOOSE x \in S : \A y \in S \ {x} : NetLess(x, y)
         IN  << m >> \o SortedNets(S \ {m})

\* (SkipSubsumedOffByOne also skips a network that ends one address after
\* the last one yielded.)
RECURSIVE SkipSubsumedOffByOne(_, _)
SkipSubsumedOffByOne(nets, last) ==
    IF nets = << >> THEN << >>
    ELSE IF last # None /\ BroadcastAddress(last[1]) + 1 >= BroadcastAddress(Head(nets))
    THEN SkipSubsumedOffByOne(Tail(nets), last)
    ELSE << Head(nets) >> \o SkipSubsumedOffByOne(Tail(nets), Some(Head(nets)))

\* ipaddress._collapse_addresses_internal, second loop: skip the networks
\* subsumed by the last one yielded.
RECURSIVE SkipSubsumed(_, _)
SkipSubsumed(nets, last) ==
    IF nets = << >> THEN << >>
    ELSE IF last # None /\ BroadcastAddress(last[1]) >= BroadcastAddress(Head(nets))
    THEN SkipSubsumed(Tail(nets), last)
    ELSE << Head(nets) >> \o SkipSubsumed(Tail(nets), Some(Head(nets)))

\* ipaddress.collapse_addresses
collapse_addresses(nets_list) ==
    LET subnets == MergeSubnets(nets_list, << >>)
    IN  SkipSubsumed(SortedNets({ subnets[k] : k \in DOMAIN subnets }), None)

\* (maybe_collapse_networks_sorted_only never collapses.)
maybe_collapse_networks_sorted_only(nets_list, aggregate) == SortedByAddress(nets_list)

maybe_collapse_networks(nets_list, aggregate) ==
    IF ~aggregate \/ nets_list = << >>
    THEN SortedByAddress(nets_list)
    ELSE SortedByAddress(collapse_addresses(nets_list))

\* ------------------------------------------------------------------------
\* Python set of networks (nets_zone): the sequence of its distinct elements
\* in insertion order; list(set) walks the hash table, that is the elements
\* by hash slot and, within a slot, in insertion order.
\* ------------------------------------------------------------------------

HashSlots == 8

RECURSIVE BitXor(_, _)
BitXor(a, b) ==
    IF a = 0 THEN b
    ELSE IF b = 0 THEN a
    ELSE ((a + b) % 2) + 2 * BitXor(a \div 2, b \div 2)

\* IPv4Network.__hash__: hash(int(network_address) ^ int(netmask))
NetHash(n) == BitXor(n.network_address, Netmask(n))

SetAdd(s, x) == IF x \in Range(s) THEN s ELSE Append(s, x)

RECURSIVE SetUpdate(_, _)
SetUpdate(s, xs) ==
    IF xs = << >> THEN s ELSE SetUpdate(SetAdd(s, Head(xs)), Tail(xs))

RECURSIVE InsertBySlot(_, _)
InsertBySlot(sorted, n) ==
    IF sorted = << >> THEN << n >>
    ELSE IF NetHash(Head(sorted)) % HashSlots <= NetHash(n) % HashSlots
    THEN << Head(sorted) >> \o InsertBySlot(Tail(sorted), n)
    ELSE << n >> \o sorted

\* list(nets) of a set
RECURSIVE SetIter(_)
SetIter(s) ==
    IF s = << >> THEN << >>
    ELSE InsertBySlot(SetIter(SubSeq(s, 1, Len(s) - 1)), s[Len(s)])

\* ------------------------------------------------------------------------
\* Names of address-lists
\* ------------------------------------------------------------------------

Str_geoip == << "g", "e", "o", "i", "p" >>

\* GEOIP_COUNTRY_PREFIX (its default value)
GEOIP_COUNTRY_PREFIX == << "g", "e", "o", "i", "p", "-" >>

\* GEOIP_OLD_SUFFIX (its default value)
GEOIP_OLD_SUFFIX == << "-", "o", "l", "d" >>

ListNameMax == 63

PrefixMax == 40

NameChars ==
    Range(LowerLetters) \cup Range(UpperLetters) \cup Range(DigitChars) \cup { "_", "-" }

\* re.sub(r"[^A-Za-z0-9_\-]", "_", s)
SubInvalid(s) == [ i \in 1..Len(s) |-> IF s[i] \in NameChars THEN s[i] ELSE "_" ]

\* (NoTruncate keeps the whole str.)
NoTruncate(s, n) == s

\* s[:n]
Truncate(s, n) == IF Len(s) <= n THEN s ELSE SubSeq(s, 1, n)

\* s.rstrip("-")
RECURSIVE RStripDash(_)
RStripDash(s) ==
    IF s # << >> /\ s[Len(s)] = "-" THEN RStripDash(SubSeq(s, 1, Len(s) - 1)) ELSE s

normalize_list_name(raw) ==
    IF raw = None \/ raw[1] = << >> THEN Str_geoip
    ELSE IF Strip(raw[1]) = << >> THEN Str_geoip
    ELSE LET cleaned == SubInvalid(Strip(raw[1]))
         IN  IF cleaned = << >> THEN Str_geoip ELSE Truncate(cleaned, ListNameMax)

normalize_prefix(raw, default_prefix) ==
    LET base == IF raw = None \/ raw[1] = << >> THEN default_prefix
                ELSE IF Strip(raw[1]) # << >> THEN Strip(raw[1]) ELSE default_prefix
        cleaned1 == RStripDash(SubInvalid(base))
        cleaned2 == IF cleaned1 = << >> THEN RStripDash(SubInvalid(default_prefix))
                    ELSE cleaned1
        cleaned3 == IF cleaned2 = << >> THEN Str_geoip ELSE cleaned2
    IN  Truncate(cleaned3, PrefixMax)

list_old_name(list_name) ==
    IF list_name = << >> THEN Str_geoip \o GEOIP_OLD_SUFFIX
    ELSE list_name \o GEOIP_OLD_SUFFIX

\* ------------------------------------------------------------------------
\* Lines of a response.  A line is the record of the fields its f-string
\* interpolates; RenderLine is the f-string.
\* ------------------------------------------------------------------------

ScriptLine(kind, list, old, address, comment) ==
    [ kind |-> kind, list |-> list, old |-> old, address |-> address, comment |-> comment ]

HeaderLine == ScriptLine("header", << >>, << >>, << >>, None)

SwapLine(list_name) ==
    ScriptLine("swap", list_name, list_old_name(list_name), << >>, None)

AddLine(list_name, key, comment) == ScriptLine("add", list_name, << >>, key, comment)

ErrorLine(endpoint) == ScriptLine("error", endpoint, << >>, << >>, None)

Str_custom == << "c", "u", "s", "t", "o", "m" >>

Str_Custom == << "C", "u", "s", "t", "o", "m" >>

Str_geoip_rsc == << "g", "e", "o", "i", "p", ".", "r", "s", "c" >>

RenderLine(l) ==
    CASE l.kind = "header" -> "/ip firewall address-list"
      [] l.kind = "swap" ->
            ":do { set [find list=" \o Join(l.list) \o "] list=" \o Join(l.old)
                \o " timeout=00:05:00 } on-error={}"
      [] l.kind = "add" ->
            "add list=" \o Join(l.list) \o " address=" \o Join(l.address) \o " dynamic=yes"
                \o (IF l.comment = None THEN ""
                    ELSE " comment=\"" \o Join(l.comment[1]) \o "\"")
      [] l.kind = "error" ->
            ":log error \"GEOIP " \o Join(l.list) \o " link is wrong, please check online !\""

\* "\n".join(lines) + "\n"
RECURSIVE Content(_)
Content(lines) ==
    IF lines = << >> THEN "" ELSE RenderLine(Head(lines)) \o "\n" \o Content(Tail(lines))

\* ------------------------------------------------------------------------
\* The emission loops of custom_rsc and geoip_rsc
\* ------------------------------------------------------------------------

\* The accumulator of an emission loop: the script so far, the seen-set and
\* any_entries.
Acc(lines, seen, any_entries) ==
    [ lines |-> lines, seen |-> seen, any_entries |-> any_entries ]

\* One pass of "for net in nets_final": skip a key already seen, else add it.
\* (EmitNetAlways adds it without looking at the seen-set.)
EmitNetAlways(acc, net, list_name, comment) ==
    Acc(Append(acc.lines, AddLine(list_name, WithPrefixlen(net), comment)),
        acc.seen \cup { WithPrefixlen(net) }, TRUE)

\* (EmitNetRetag gives a key already seen the comment of the later source.)
EmitNetRetag(acc, net, list_name, comment) ==
    LET key == WithPrefixlen(net)
    IN  IF key \in acc.seen
        THEN Acc([ i \in DOMAIN acc.lines |->
                     IF acc.lines[i].kind = "add" /\ acc.lines[i].address = key
                     THEN AddLine(list_name, key, comment) ELSE acc.lines[i] ],
                 acc.seen, acc.any_entries)
        ELSE Acc(Append(acc.lines, AddLine(list_name, key, comment)),
                 acc.seen \cup { key }, TRUE)

EmitNet(acc, net, list_name, comment) ==
    LET key == WithPrefixlen(net)
    IN  IF key \in acc.seen THEN acc
        ELSE Acc(Append(acc.lines, AddLine(list_name, key, comment)),
                 acc.seen \cup { key }, TRUE)

RECURSIVE EmitNets(_, _, _, _)
EmitNets(acc, nets_final, list_name, comment) ==
    IF nets_final = << >> THEN acc
    ELSE EmitNets(EmitNet(acc, Head(nets_final), list_name, comment),
                  Tail(nets_final), list_name, comment)

\* dict.get(key, [])
DictGet(d, key) == IF key \in DOMAIN d THEN d[key] ELSE << >>

\* ------------------------------------------------------------------------
\* A request and the local state of its handler
\* ------------------------------------------------------------------------

\* The query parameters: cc and zone are lists of str, name is the "list"
\* (custom.rsc) or "prefix" (geoip.rsc) parameter, custom the "custom" text.
Request(endpoint, cc, zone, name, aggregate_param, custom_param) ==
    [ endpoint |-> endpoint, cc |-> cc, zone |-> zone, name |-> name,
      aggregate_param |-> aggregate_param, custom_param |-> custom_param ]

NoRequest == Request("none", << >>, << >>, None, 0, None)

\* The locals of a handler that has not started.  pc is the place in the
\* handler; cat_sel, cat_emit, zd_sel and zd_emit record which values of the
\* globals _country_nets and ZONE_DEFS the handler has read while selecting
\* and while emitting; run counts how often the request has been sent in a
\* row and prev_response is the response to the time before; base is the
\* request this one was made from by adding invalid tokens.
IdleHandler ==
    [ pc |-> "idle", req |-> NoRequest,
      list_name |-> << >>, aggregate |-> FALSE, custom_nets |-> << >>,
      selected_countries |-> << >>, selected_zones |-> << >>,
      order |-> << >>, i |-> 1, members |-> << >>, j |-> 1,
      nets_zone |-> << >>, lines |-> << >>, seen |-> {}, any_entries |-> FALSE,
      response |-> None, run |-> 0, prev_response |-> None, base |-> None,
      cat_sel |-> {}, cat_emit |-> {}, zd_sel |-> {}, zd_emit |-> {} ]

\* The handler is entered with request r.
EnterHandler(r) ==
    [ IdleHandler EXCEPT !.req = r, !.run = 1,
                         !.pc = IF r.endpoint = "custom" THEN "c_start" ELSE "g_start" ]

Raise(l) == [ l EXCEPT !.pc = "except" ]

WithAcc(l, acc) ==
    [ l EXCEPT !.lines = acc.lines, !.seen = acc.seen, !.any_entries = acc.any_entries ]

AccOf(l) == Acc(l.lines, l.seen, l.any_entries)

\* ------------------------------------------------------------------------
\* custom_rsc, one step at a time.  CN and ZD are the values of the globals
\* _country_nets and ZONE_DEFS at the moment of the step; each step reads
\* each of them at most once.
\* ------------------------------------------------------------------------

\* lines 1206-1211
CustomStart(l) ==
    [ l EXCEPT !.list_name = normalize_list_name(l.req.name),
               !.aggregate = (l.req.aggregate_param # 0),
               !.custom_nets = parse_custom_cidrs(l.req.custom_param),
               !.selected_countries = << >>,
               !.selected_zones = << >>,
               !.i = 1,
               !.pc = "c_cc" ]

\* lines 1213-1216, one token
CustomSelectCountry(l, CN) ==
    IF l.i > Len(l.req.cc) THEN [ l EXCEPT !.i = 1, !.pc = "c_zone" ]
    ELSE LET c == Lower(Strip(l.req.cc[l.i]))
         IN  IF c = << >> THEN [ l EXCEPT !.i = @ + 1 ]
             ELSE [ l EXCEPT !.i = @ + 1,
                             !.cat_sel = @ \cup { CN },
                             !.selected_countries =
                                 IF c \in DOMAIN CN /\ c \notin Range(@)
                                 THEN Append(@, c) ELSE @ ]

\* lines 1218-1221, one token
CustomSelectZone(l, ZD) ==
    IF l.i > Len(l.req.zone) THEN [ l EXCEPT !.i = 1, !.pc = "c_check" ]
    ELSE LET zkey == Upper(Strip(l.req.zone[l.i]))
         IN  IF zkey = << >> THEN [ l EXCEPT !.i = @ + 1 ]
             ELSE [ l EXCEPT !.i = @ + 1,
                             !.zd_sel = @ \cup { ZD },
                             !.selected_zones =
                                 IF zkey \in DOMAIN ZD /\ zkey \notin Range(@)
                                 THEN Append(@, zkey) ELSE @ ]

\* The seen-set at line 1234: a fresh set.  (CustomSeenKept is the set of the
\* run before this one, as a seen-set shared between calls would be.)
CustomSeenKept(l) == handler.seen

CustomSeenInit(l) == {}

\* lines 1223-1234
CustomCheck(l) ==
    IF l.selected_countries = << >> /\ l.selected_zones = << >> /\ l.custom_nets = << >>
    THEN Raise(l)
    ELSE [ l EXCEPT !.lines = << HeaderLine, SwapLine(l.list_name) >>,
                    !.any_entries = FALSE,
                    !.seen = CustomSeenInit(l),
                    !.order = SortedStrs(Range(l.selected_countries)),
                    !.i = 1,
                    !.pc = "c_emit_c" ]

\* lines 1236-1249, one country
CustomEmitCountry(l, CN) ==
    IF l.i > Len(l.order)
    THEN [ l EXCEPT !.order = SortedStrs(Range(l.selected_zones)), !.i = 1,
                    !.pc = "c_emit_z" ]
    ELSE LET c == l.order[l.i]
             nets == DictGet(CN, c)
             r == [ l EXCEPT !.i = @ + 1, !.cat_emit = @ \cup { CN } ]
         IN  IF nets = << >> THEN r
             ELSE WithAcc(r, EmitNets(AccOf(l),
                                      maybe_collapse_networks(nets, l.aggregate),
                                      l.list_name, Some(Upper(c))))

\* lines 1251-1253: the next zone, ZONE_DEFS[z]
CustomZoneBegin(l, ZD) ==
    IF l.i > Len(l.order) THEN [ l EXCEPT !.pc = "c_custom" ]
    ELSE LET z == l.order[l.i]
             r == [ l EXCEPT !.zd_emit = @ \cup { ZD } ]
         IN  IF z \notin DOMAIN ZD THEN Raise(r)
             ELSE [ r EXCEPT !.nets_zone = << >>, !.members = ZD[z], !.j = 1,
                             !.pc = "c_zmem" ]

\* (CustomZoneMemberStrict is CustomZoneMember failing on a member without
\* data.)
CustomZoneMemberStrict(l, CN) ==
    IF l.j > Len(l.members) THEN [ l EXCEPT !.pc = "c_zemit" ]
    ELSE LET r == [ l EXCEPT !.cat_emit = @ \cup { CN } ]
         IN  IF l.members[l.j] \in DOMAIN CN THEN [ r EXCEPT !.pc = "c_zget" ]
             ELSE Raise(r)

\* line 1254: "if c in _country_nets" for one member
CustomZoneMember(l, CN) ==
    IF l.j > Len(l.members) THEN [ l EXCEPT !.pc = "c_zemit" ]
    ELSE LET r == [ l EXCEPT !.cat_emit = @ \cup { CN } ]
         IN  IF l.members[l.j] \in DOMAIN CN THEN [ r EXCEPT !.pc = "c_zget" ]
             ELSE [ r EXCEPT !.j = @ + 1 ]

\* line 1255: nets_zone.update(_country_nets[c])
CustomZoneGet(l, CN) ==
    LET r == [ l EXCEPT !.cat_emit = @ \cup { CN } ]
    IN  IF l.members[l.j] \notin DOMAIN CN THEN Raise(r)
        ELSE [ r EXCEPT !.nets_zone = SetUpdate(@, CN[l.members[l.j]]),
                        !.j = @ + 1,
                        !.pc = "c_zmem" ]

\* lines 1256-1267
CustomZoneEmit(l) ==
    LET z == l.order[l.i]
        r == [ l EXCEPT !.i = @ + 1, !.pc = "c_emit_z" ]
    IN  IF l.nets_zone = << >> THEN r
        ELSE WithAcc(r, EmitNets(AccOf(l),
                                 maybe_collapse_networks(SetIter(l.nets_zone), l.aggregate),
                                 l.list_name, Some(z)))

\* (CustomFinishUnlessEntries writes the custom networks only when no other
\* source has written a line.)
CustomFinishUnlessEntries(l) ==
    LET acc == IF l.custom_nets = << >> \/ l.any_entries THEN AccOf(l)
               ELSE EmitNets(AccOf(l),
                             maybe_collapse_networks(l.custom_nets, l.aggregate),
                             l.list_name, Some(Str_Custom))
    IN  IF ~acc.any_entries THEN Raise(WithAcc(l, acc))
        ELSE [ WithAcc(l, acc) EXCEPT !.response = Some(acc.lines), !.pc = "done" ]

\* lines 1269-1285
CustomFinish(l) ==
    LET acc == IF l.custom_nets = << >> THEN AccOf(l)
               ELSE EmitNets(AccOf(l),
                             maybe_collapse_networks(l.custom_nets, l.aggregate),
                             l.list_name, Some(Str_Custom))
    IN  IF ~acc.any_entries THEN Raise(WithAcc(l, acc))
        ELSE [ WithAcc(l, acc) EXCEPT !.response = Some(acc.lines), !.pc = "done" ]

\* lines 1287-1290 and 1412-1415: the response is the error directive alone
ExceptResponseAppended(l) ==
    l.lines \o << ErrorLine(IF l.req.endpoint = "custom" THEN Str_custom ELSE Str_geoip_rsc) >>

ExceptResponse(l) ==
    << ErrorLine(IF l.req.endpoint = "custom" THEN Str_custom ELSE Str_geoip_rsc) >>

HandleException(l) ==
    [ l EXCEPT !.response = Some(ExceptResponse(l)), !.pc = "done" ]

\* ------------------------------------------------------------------------
\* geoip_rsc, one step at a time
\* ------------------------------------------------------------------------

\* lines 1309-1314
GeoipStart(l) ==
    [ l EXCEPT !.list_name = normalize_prefix(l.req.name, GEOIP_COUNTRY_PREFIX),
               !.aggregate = (l.req.aggregate_param # 0),
               !.custom_nets = parse_custom_cidrs(l.req.custom_param),
               !.selected_countries = << >>,
               !.selected_zones = << >>,
               !.i = 1,
               !.pc = "g_cc" ]

\* lines 1316-1319, one token (selected_countries is a set)
GeoipSelectCountry(l, CN) ==
    IF l.i > Len(l.req.cc) THEN [ l EXCEPT !.i = 1, !.pc = "g_zone" ]
    ELSE LET c == Lower(Strip(l.req.cc[l.i]))
         IN  IF c = << >> THEN [ l EXCEPT !.i = @ + 1 ]
             ELSE [ l EXCEPT !.i = @ + 1,
                             !.cat_sel = @ \cup { CN },
                             !.selected_countries =
                                 IF c \in DOMAIN CN /\ c \notin Range(@)
                                 THEN Append(@, c) ELSE @ ]

\* lines 1321-1326, one token: "if zkey in ZONE_DEFS"
GeoipSelectZone(l, ZD) ==
    IF l.i > Len(l.req.zone) THEN [ l EXCEPT !.i = 1, !.pc = "g_check" ]
    ELSE LET zkey == Upper(Strip(l.req.zone[l.i]))
         IN  IF zkey = << >> THEN [ l EXCEPT !.i = @ + 1 ]
             ELSE IF zkey \notin DOMAIN ZD
             THEN [ l EXCEPT !.i = @ + 1, !.zd_sel = @ \cup { ZD } ]
             ELSE [ l EXCEPT !.zd_sel = @ \cup { ZD },
                             !.selected_zones =
                                 IF zkey \notin Range(@) THEN Append(@, zkey) ELSE @,
                             !.pc = "g_zone_get" ]

\* line 1327: "for c in ZONE_DEFS[zkey]"
GeoipSelectZoneGet(l, ZD) ==
    LET zkey == Upper(Strip(l.req.zone[l.i]))
        r == [ l EXCEPT !.zd_sel = @ \cup { ZD } ]
    IN  IF zkey \notin DOMAIN ZD THEN Raise(r)
        ELSE [ r EXCEPT !.members = ZD[zkey], !.j = 1, !.pc = "g_zone_mem" ]

\* (GeoipSelectZoneMemberSkip leaves the members of a zone unselected.)
GeoipSelectZoneMemberSkip(l, CN) ==
    IF l.j > Len(l.members) THEN [ l EXCEPT !.i = @ + 1, !.pc = "g_zone" ]
    ELSE [ l EXCEPT !.j = @ + 1, !.cat_sel = @ \cup { CN } ]

\* lines 1328-1329, one member
GeoipSelectZoneMember(l, CN) ==
    IF l.j > Len(l.members) THEN [ l EXCEPT !.i = @ + 1, !.pc = "g_zone" ]
    ELSE LET c == l.members[l.j]
         IN  [ l EXCEPT !.j = @ + 1,
                        !.cat_sel = @ \cup { CN },
                        !.selected_countries =
                            IF c \in DOMAIN CN /\ c \notin Range(@)
                            THEN Append(@, c) ELSE @ ]

\* (GeoipCheckNoRaise is GeoipCheck without the test of line 1331.)
GeoipCheckNoRaise(l) ==
    [ l EXCEPT !.lines = << HeaderLine >>,
               !.order = SortedStrs(Range(l.selected_countries)),
               !.i = 1,
               !.pc = "g_emit_c" ]

\* lines 1331-1346 (the set list_names of lines 1334-1343 is never read)
GeoipCheck(l) ==
    IF l.selected_countries = << >> /\ l.selected_zones = << >> /\ l.custom_nets = << >>
    THEN Raise(l)
    ELSE [ l EXCEPT !.lines = << HeaderLine >>,
                    !.order = SortedStrs(Range(l.selected_countries)),
                    !.i = 1,
                    !.pc = "g_emit_c" ]

\* (GeoipEmitListSwapAfter writes the swap directive of a list after its add
\* lines.)
GeoipEmitListSwapAfter(l, list_name, nets_final) ==
    LET acc == EmitNets(Acc(l.lines, {}, l.any_entries), nets_final, list_name, None)
    IN  WithAcc(l, Acc(Append(acc.lines, SwapLine(list_name)), acc.seen, acc.any_entries))

\* A list of geoip_rsc: its swap directive, then its add lines with a
\* seen-set of its own (lines 1354-1367, 1378-1390, 1395-1407).
GeoipEmitList(l, list_name, nets_final) ==
    WithAcc(l, EmitNets(Acc(Append(l.lines, SwapLine(list_name)), {}, l.any_entries),
                        nets_final, list_name, None))

\* lines 1349-1367, one country
GeoipEmitCountry(l, CN) ==
    IF l.i > Len(l.order)
    THEN [ l EXCEPT !.order = SortedStrs(Range(l.selected_zones)), !.i = 1,
                    !.pc = "g_emit_z" ]
    ELSE LET c == l.order[l.i]
             nets == DictGet(CN, c)
             r == [ l EXCEPT !.i = @ + 1, !.cat_emit = @ \cup { CN } ]
         IN  IF nets = << >> THEN r
             ELSE GeoipEmitList(r, l.list_name \o << "-" >> \o Lower(c),
                                maybe_collapse_networks(nets, l.aggregate))

\* lines 1370-1373: the next zone, ZONE_DEFS[z]
GeoipZoneBegin(l, ZD) ==
    IF l.i > Len(l.order) THEN [ l EXCEPT !.pc = "g_custom" ]
    ELSE LET z == l.order[l.i]
             r == [ l EXCEPT !.zd_emit = @ \cup { ZD } ]
         IN  IF z \notin DOMAIN ZD THEN Raise(r)
             ELSE [ r EXCEPT !.nets_zone = << >>, !.members = ZD[z], !.j = 1,
                             !.pc = "g_zmem" ]

\* lines 1374-1376, one member
GeoipZoneMember(l, CN) ==
    IF l.j > Len(l.members) THEN [ l EXCEPT !.pc = "g_zemit" ]
    ELSE LET c == l.members[l.j]
         IN  IF c \notin Range(l.selected_countries) THEN [ l EXCEPT !.j = @ + 1 ]
             ELSE [ l EXCEPT !.j = @ + 1,
                             !.cat_emit = @ \cup { CN },
                             !.nets_zone = SetUpdate(@, DictGet(CN, c)) ]

\* (GeoipZoneEmitLower names the list with the zone code in lower case.)
GeoipZoneEmitLower(l) ==
    GeoipEmitList([ l EXCEPT !.i = @ + 1, !.pc = "g_emit_z" ],
                  l.list_name \o << "-" >> \o Lower(l.order[l.i]),
                  maybe_collapse_networks(SetIter(l.nets_zone), l.aggregate))

\* lines 1377-1390
GeoipZoneEmit(l) ==
    GeoipEmitList([ l EXCEPT !.i = @ + 1, !.pc = "g_emit_z" ],
                  l.list_name \o << "-" >> \o l.order[l.i],
                  maybe_collapse_networks(SetIter(l.nets_zone), l.aggregate))

\* lines 1392-1410
GeoipFinish(l) ==
    LET r == IF l.custom_nets = << >> THEN l
             ELSE GeoipEmitList(l, l.list_name \o << "-" >> \o Str_custom,
                                maybe_collapse_networks(l.custom_nets, l.aggregate))
    IN  [ r EXCEPT !.response = Some(r.lines), !.pc = "done" ]

\* ------------------------------------------------------------------------
\* One step of a handler that is at l.pc, reading the globals as CN and ZD
\* ------------------------------------------------------------------------

HandlerStep(l, CN, ZD) ==
    CASE l.pc = "c_start" -> CustomStart(l)
      [] l.pc = "c_cc" -> CustomSelectCountry(l, CN)
      [] l.pc = "c_zone" -> CustomSelectZone(l, ZD)
      [] l.pc = "c_check" -> CustomCheck(l)
      [] l.pc = "c_emit_c" -> CustomEmitCountry(l, CN)
      [] l.pc = "c_emit_z" -> CustomZoneBegin(l, ZD)
      [] l.pc = "c_zmem" -> CustomZoneMember(l, CN)
      [] l.pc = "c_zget" -> CustomZoneGet(l, CN)
      [] l.pc = "c_zemit" -> CustomZoneEmit(l)
      [] l.pc = "c_custom" -> CustomFinish(l)
      [] l.pc = "g_start" -> GeoipStart(l)
      [] l.pc = "g_cc" -> GeoipSelectCountry(l, CN)
      [] l.pc = "g_zone" -> GeoipSelectZone(l, ZD)
      [] l.pc = "g_zone_get" -> GeoipSelectZoneGet(l, ZD)
      [] l.pc = "g_zone_mem" -> GeoipSelectZoneMember(l, CN)
      [] l.pc = "g_check" -> GeoipCheck(l)
      [] l.pc = "g_emit_c" -> GeoipEmitCountry(l, CN)
      [] l.pc = "g_emit_z" -> GeoipZoneBegin(l, ZD)
      [] l.pc = "g_zmem" -> GeoipZoneMember(l, CN)
      [] l.pc = "g_zemit" -> GeoipZoneEmit(l)
      [] l.pc = "g_custom" -> GeoipFinish(l)
      [] l.pc = "except" -> HandleException(l)

\* A handler run to its response while the globals stay CN and ZD
RECURSIVE RunHandler(_, _, _)
RunHandler(l, CN, ZD) ==
    IF l.pc = "done" THEN l ELSE RunHandler(HandlerStep(l, CN, ZD), CN, ZD)

custom_rsc(cc, zone, list_name_param, aggregate_param, custom_param, CN, ZD) ==
    RunHandler(EnterHandler(Request("custom", cc, zone, list_name_param,
                                    aggregate_param, custom_param)), CN, ZD)

geoip_rsc(cc, zone, prefix_param, aggregate_param, custom_param, CN, ZD) ==
    RunHandler(EnterHandler(Request("geoip", cc, zone, prefix_param,
                                    aggregate_param, custom_param)), CN, ZD)

\* ------------------------------------------------------------------------
\* load_zone_defs.  A parsed YAML or JSON value is a record [t, v]: t is its
\* Python type, v its content (the characters of a str, the items of a list,
\* the <<key, value>> pairs of a dict in insertion order).
\* ------------------------------------------------------------------------

PyNone == [ t |-> "none", v |-> << >> ]

PyStr(s) == [ t |-> "str", v |-> s ]

PyInt(n) == [ t |-> "int", v |-> << n >> ]

PyList(items) == [ t |-> "list", v |-> items ]

PyDict(pairs) == [ t |-> "dict", v |-> pairs ]

\* Python truth value of a parsed value
Truthy(x) ==
    CASE x.t = "none" -> FALSE
      [] x.t = "int" -> x.v[1] # 0
      [] OTHER -> x.v # << >>

IsKey(k, name) == k.t = "str" /\ k.v = name

\* "name in d"
DictHas(d, name) == \E i \in 1..Len(d.v) : IsKey(d.v[i][1], name)

\* d.get(name): the value of the key, else None
DictGetPy(d, name) ==
    IF DictHas(d, name)
    THEN d.v[CHOOSE i \in 1..Len(d.v) : IsKey(d.v[i][1], name)][2]
    ELSE PyNone

\* mapping[code] = countries on a dict kept as pairs
DictSet(pairs, k, val) ==
    IF \E i \in 1..Len(pairs) : pairs[i][1] = k
    THEN [ i \in 1..Len(pairs) |-> IF pairs[i][1] = k THEN << k, val >> ELSE pairs[i] ]
    ELSE Append(pairs, << k, val >>)

Str_zones == << "z", "o", "n", "e", "s" >>

Str_code == << "c", "o", "d", "e" >>

Str_countries == << "c", "o", "u", "n", "t", "r", "i", "e", "s" >>

\* lines 197-208 and 214-225: the mapping of a list of {code, countries} items
RECURSIVE ZoneItemsMapping(_, _)
ZoneItemsMapping(items, mapping) ==
    IF items = << >> THEN mapping
    ELSE LET item == Head(items)
             code == DictGetPy(item, Str_code)
             countries == DictGetPy(item, Str_countries)
         IN  IF item.t = "dict" /\ code.t = "str" /\ countries.t = "list"
             THEN ZoneItemsMapping(Tail(items), DictSet(mapping, code.v, countries))
             ELSE ZoneItemsMapping(Tail(items), mapping)

\* A file: whether it exists, whether it can be read and parsed, its value.
File(exists, ok, doc) == [ exists |-> exists, ok |-> ok, doc |-> doc ]

NoFile == File(FALSE, FALSE, PyNone)

\* lines 189-229: zones_data read from GEOIP_ZONES_FILE, None when unusable.
\* The result is None or Some(pairs), the pairs <<zone name, countries>> with
\* the zone name a parsed value when it comes from a dict and a str when it
\* comes from a list of items.
ZonesFromYaml(f) ==
    IF ~f.exists \/ ~f.ok THEN None
    ELSE LET data == IF Truthy(f.doc) THEN f.doc ELSE PyDict(<< >>)
         IN  IF data.t = "dict"
             THEN LET zones_data == IF DictHas(data, Str_zones)
                                    THEN DictGetPy(data, Str_zones) ELSE data
                  IN  IF zones_data.t = "dict" THEN Some(zones_data.v)
                      ELSE IF zones_data.t = "list"
                      THEN LET mapping == ZoneItemsMapping(zones_data.v, << >>)
                           IN  IF mapping # << >>
                               THEN Some([ i \in 1..Len(mapping) |->
                                            << PyStr(mapping[i][1]), mapping[i][2] >> ])
                               ELSE None
                      ELSE None
             ELSE IF data.t = "list"
             THEN LET mapping == ZoneItemsMapping(data.v, << >>)
                  IN  IF mapping # << >>
                      THEN Some([ i \in 1..Len(mapping) |->
                                   << PyStr(mapping[i][1]), mapping[i][2] >> ])
                      ELSE None
             ELSE None

\* lines 231-238: the legacy config.json
ZonesFromLegacy(f) ==
    IF f.exists /\ f.ok /\ f.doc.t = "dict" THEN Some(f.doc.v) ELSE None

StrsOf(codes) == [ i \in 1..Len(codes) |-> PyStr(codes[i]) ]

\* lines 241-248: the built-in default zones
DefaultZones ==
    << << PyStr(<< "E", "U" >>),
          PyList(StrsOf(<<
              << "a", "t" >>, << "b", "e" >>, << "b", "g" >>, << "c", "h" >>,
              << "c", "y" >>, << "c", "z" >>, << "d", "e" >>, << "d", "k" >>,
              << "e", "e" >>, << "e", "s" >>, << "f", "i" >>, << "f", "r" >>,
              << "g", "r" >>, << "h", "r" >>, << "h", "u" >>, << "i", "e" >>,
              << "i", "s" >>, << "i", "t" >>, << "l", "t" >>, << "l", "u" >>,
              << "l", "v" >>, << "m", "t" >>, << "n", "l" >>, << "n", "o" >>,
              << "p", "l" >>, << "p", "t" >>, << "r", "o" >>, << "s", "e" >>,
              << "s", "i" >>, << "s", "k" >> >>)) >>,
       << PyStr(<< "U", "S" >>), PyList(StrsOf(<< << "u", "s" >> >>)) >> >>

\* lines 260-263: the members of one zone
RECURSIVE CleanCountries(_)
CleanCountries(countries) ==
    IF countries = << >> THEN << >>
    ELSE LET c == Head(countries)
         IN  IF c.t = "str" /\ Strip(c.v) # << >>
             THEN << Lower(Strip(c.v)) >> \o CleanCountries(Tail(countries))
             ELSE CleanCountries(Tail(countries))

\* lines 251-265: cleaned, as a function zone code -> country codes
RECURSIVE CleanZones(_, _)
CleanZones(pairs, cleaned) ==
    IF pairs = << >> THEN cleaned
    ELSE LET zone_name == Head(pairs)[1]
             countries == Head(pairs)[2]
             zn == Upper(Strip(zone_name.v))
         IN  IF zone_name.t # "str" \/ countries.t # "list"
             THEN CleanZones(Tail(pairs), cleaned)
             ELSE IF zn = << >> \/ CleanCountries(countries.v) = << >>
             THEN CleanZones(Tail(pairs), cleaned)
             ELSE CleanZones(Tail(pairs),
                             [ k \in DOMAIN cleaned \cup { zn } |->
                                 IF k = zn THEN CleanCountries(countries.v)
                                 ELSE cleaned[k] ])

\* load_zone_defs: the value it gives ZONE_DEFS, from the zones file and the
\* legacy config file
load_zone_defs(zones_yaml, legacy_json) ==
    LET from_yaml == ZonesFromYaml(zones_yaml)
        from_legacy == IF from_yaml = None THEN ZonesFromLegacy(legacy_json) ELSE from_yaml
        zones_data == IF from_legacy = None THEN DefaultZones ELSE from_legacy[1]
    IN  CleanZones(zones_data, << >>)

\* ------------------------------------------------------------------------
\* load_country_nets_from_disk
\* ------------------------------------------------------------------------

\* A *.zone file: whether read_text() succeeds, and its lines.
ZoneFile(ok, lines) == [ ok |-> ok, lines |-> lines ]

\* (CountryCodeOfUnfiltered takes every stem for a country code.)
CountryCodeOfUnfiltered(stem) == Some(Lower(stem))

\* lines 421-424: the country code of a file stem, None when it is filtered
CountryCodeOf(stem) ==
    LET code == Lower(stem)
    IN  IF Len(code) # 2 \/ ~IsAlpha(code) THEN None ELSE Some(code)

\* lines 420-438, one file: nets after the file with this stem is read
LoadZoneFile(nets, stem, file) ==
    LET code == CountryCodeOf(stem)
        cidrs == ParseLines(file.lines)
    IN  IF code = None \/ cidrs = << >> THEN nets
        ELSE [ k \in DOMAIN nets \cup { code[1] } |->
                 IF k = code[1] THEN cidrs ELSE nets[k] ]

\* Whether reading the file with this stem raises (line 427)
ReadRaises(stem, file) == CountryCodeOf(stem) # None /\ ~file.ok

\* The loop of lines 420-438 over a directory, in the order of the stems
RECURSIVE LoadZoneFiles(_, _, _)
LoadZoneFiles(nets, stems, dir) ==
    IF stems = << >> THEN nets
    ELSE LoadZoneFiles(LoadZoneFile(nets, Head(stems), dir[Head(stems)]), Tail(stems), dir)

\* ------------------------------------------------------------------------
\* The data the model runs on
\* ------------------------------------------------------------------------

S_ch == << "c", "h" >>

S_fr == << "f", "r" >>

S_us == << "u", "s" >>

S_FR == << "F", "R" >>

S_EU == << "E", "U" >>

S_NA == << "N", "A" >>

S_asia == << "a", "s", "i", "a" >>

S_zz == << "z", "z" >>

Half == AddrSpace \div 2

Quarter == AddrSpace \div 4

\* The *.zone members of the archives upstream may serve.  An archive is
\* [ok, files]: ok is whether tarfile can open it.
Archive(ok, files) == [ ok |-> ok, files |-> files ]

\* ch has two adjacent networks and a duplicate written with host bits; the
\* stem FR is upper-case; asia is no country code.
ArchiveA ==
    Archive(TRUE,
        (S_ch :> ZoneFile(TRUE, << CidrLine(0, AddrBits - 1), CidrLine(2, AddrBits - 1),
                                   BlankLine, CidrLine(1, AddrBits - 1), JunkLine >>))
        @@ (S_FR :> ZoneFile(TRUE, << CidrLine(Half, 2), V6Line, AddrLine(Half + Quarter) >>))
        @@ (S_asia :> ZoneFile(TRUE, << CidrLine(0, 0) >>)))

\* ch has a network nested in another at the same address; us covers the
\* same addresses as ch; zz has no valid line; fr is gone.
ArchiveB ==
    Archive(TRUE,
        (S_ch :> ZoneFile(TRUE, << CidrLine(Half, 1), CidrLine(Half, 2) >>))
        @@ (S_us :> ZoneFile(TRUE, << CidrLine(Half + Quarter, 2), CidrLine(Half, 2) >>))
        @@ (S_zz :> ZoneFile(TRUE, << JunkLine, V6Line >>)))

\* a corrupt archive
ArchiveBad == Archive(FALSE, << >>)

\* an archive with a file that cannot be read as text
ArchiveUnreadable ==
    Archive(TRUE,
        (S_ch :> ZoneFile(TRUE, << CidrLine(0, 1) >>))
        @@ (S_us :> ZoneFile(FALSE, << >>)))

\* an archive whose only *.zone member is no country file
ArchiveNoCountry == Archive(TRUE, (S_asia :> ZoneFile(TRUE, << CidrLine(0, 0) >>)))

Archives == << ArchiveA, ArchiveB, ArchiveBad, ArchiveUnreadable, ArchiveNoCountry >>

\* The zone definitions the two zone files may hold.
ZoneSource(zones_yaml, legacy_json) == [ zones_yaml |-> zones_yaml, legacy_json |-> legacy_json ]

\* zones.yaml as a mapping under "zones": {eu: [CH, " fr "], XX: [], 5: [us]}
ZonesDictForm ==
    ZoneSource(
        File(TRUE, TRUE,
             PyDict(<< << PyStr(Str_zones),
                          PyDict(<< << PyStr(<< "e", "u" >>),
                                       PyList(<< PyStr(<< "C", "H" >>),
                                                 PyStr(<< " ", "f", "r", " " >>) >>) >>,
                                    << PyStr(<< "X", "X" >>), PyList(<< >>) >>,
                                    << PyInt(5), PyList(<< PyStr(S_us) >>) >> >>) >> >>)),
        NoFile)

\* zones.yaml as a list of items: EU = [ch, fr], NA = [us, ch]
ZonesListForm ==
    ZoneSource(
        File(TRUE, TRUE,
             PyList(<< PyDict(<< << PyStr(Str_code), PyStr(S_EU) >>,
                                 << PyStr(Str_countries),
                                    PyList(<< PyStr(S_ch), PyStr(S_fr) >>) >> >>),
                       PyStr(S_zz),
                       PyDict(<< << PyStr(Str_code), PyStr(S_NA) >>,
                                 << PyStr(Str_countries),
                                    PyList(<< PyStr(S_us), PyInt(1), PyStr(S_ch) >>) >> >>) >>)),
        NoFile)

\* no zones file and no legacy file
ZonesAbsent == ZoneSource(NoFile, NoFile)

ZoneSources == << ZonesDictForm, ZonesListForm, ZonesAbsent >>

ZoneDefsOf(k) == load_zone_defs(ZoneSources[k].zones_yaml, ZoneSources[k].legacy_json)

\* The requests served while the refresh task runs
ConcRequests ==
    { Request(e, sel[1], sel[2], None, 0, None) :
        e \in { "custom", "geoip" },
        sel \in { << << >>, << >> >>, << << >>, << S_EU >> >>, << << S_fr >>, << S_EU >> >> } }

\* The zone definitions the zone files hold while the refresh task runs
ConcZoneSources == { 1, 2 }

\* The requests served against a catalog that stays as it is
GenRequests ==
    { Request(e, cc, zone, name, a, custom) :
        e \in { "custom", "geoip" },
        cc \in { << >>, << S_ch >>, << << " ", "C", "H", " " >> >>, << S_us, S_ch >>,
                 << S_fr, S_ch, S_ch >>, << S_zz >> },
        zone \in { << >>, << << "e", "u" >> >>, << S_NA, S_EU >>, << S_zz, S_us >> },
        name \in { None, Some(<< "a", "c", "m", "e", "!" >>) },
        a \in { 0, 1 },
        custom \in { None,
                     Some(<< BlankLine >>),
                     Some(<< JunkLine, BlankLine, V6Line >>),
                     Some(<< AddrLine(Half + Quarter), JunkLine, V6Line >>),
                     Some(<< CidrLine(Half, 2), CidrLine(Half + 1, 2) >>) } }

\* The directories load_country_nets_from_disk can load without an error
LoadableDirs == { << >>, ArchiveA.files, ArchiveB.files }

CatalogOfDir(dir) == LoadZoneFiles(<< >>, SortedStrs(DOMAIN dir), dir)

\* ------------------------------------------------------------------------
\* The refresh task: geoip_refresh_loop and refresh_geoip_full
\* ------------------------------------------------------------------------

\* The task's place (pc), the number of periodic cycles started (cycle), the
\* locals of load_country_nets_from_disk (nets, and todo: the files glob has
\* yet to yield) and the catalog that was published when the cycle began.
RefreshTask(pc, cycle, nets, todo, cat_at_start) ==
    [ pc |-> pc, cycle |-> cycle, nets |-> nets, todo |-> todo,
      cat_at_start |-> cat_at_start ]

\* What _country_nets holds while load_country_nets_from_disk fills its local
\* dict nets (line 418): the published dict is not touched.
CatalogWhileLoadingInPlace(published, nets) == nets

CatalogWhileLoading(published, nets) == published

\* What _country_nets holds after the except branch of refresh_geoip_full
\* (lines 451-452): the branch only prints.
CatalogAfterErrorCleared(published) == << >>

CatalogAfterError(published) == published

\* geoip_refresh_loop, lines 456-458: the zones are loaded again
R_LoopStart ==
    /\ refresh.pc = "init"
    /\ ZONE_DEFS' = ZoneDefsOf(zones_file)
    /\ refresh' = [ refresh EXCEPT !.pc = "begin" ]
    /\ UNCHANGED << country_nets, last_refresh_ts, zones_file, ipv4_url, ipv4_tar,
                    ipv4_dir, handler >>
    /\ UNCHANGED call

\* refresh_geoip_full is entered (lines 445-448)
R_Begin ==
    /\ refresh.pc = "begin"
    /\ refresh' = [ refresh EXCEPT !.pc = "download4", !.cat_at_start = country_nets ]
    /\ UNCHANGED << country_nets, last_refresh_ts, ZONE_DEFS, zones_file, ipv4_url,
                    ipv4_tar, ipv4_dir, handler >>
    /\ UNCHANGED call

\* download_tar of the IPv4 archive (lines 400-401, 330-337): skipped without
\* a URL, else the request fails or the archive upstream serves is written
R_Download4 ==
    /\ refresh.pc = "download4"
    /\ IF ~ipv4_url
       THEN /\ refresh' = [ refresh EXCEPT !.pc = "download6" ]
            /\ UNCHANGED ipv4_tar
       ELSE \E k \in 0..Len(Archives) :
              IF k = 0
              THEN /\ refresh' = [ refresh EXCEPT !.pc = "except" ]
                   /\ UNCHANGED ipv4_tar
              ELSE /\ refresh' = [ refresh EXCEPT !.pc = "extract4" ]
                   /\ ipv4_tar' = k
    /\ UNCHANGED << country_nets, last_refresh_ts, ZONE_DEFS, zones_file, ipv4_url,
                    ipv4_dir, handler >>
    /\ UNCHANGED call

\* extract_tar (lines 402, 340-354): the *.zone files are deleted, then the
\* archive is opened (which raises on a corrupt one) and its *.zone members
\* are extracted
R_Extract4 ==
    /\ refresh.pc = "extract4"
    /\ LET a == Archives[ipv4_tar]
       IN  IF ~a.ok
           THEN /\ ipv4_dir' = << >>
                /\ refresh' = [ refresh EXCEPT !.pc = "except" ]
           ELSE /\ ipv4_dir' = a.files
                /\ refresh' = [ refresh EXCEPT !.pc = "download6" ]
    /\ UNCHANGED << country_nets, last_refresh_ts, ZONE_DEFS, zones_file, ipv4_url,
                    ipv4_tar, handler >>
    /\ UNCHANGED call

\* The IPv6 archive (lines 404-408): nothing reads what it extracts, so the
\* step is only its outcome; then load_country_nets_from_disk begins (lines
\* 417-420)
R_Download6 ==
    /\ refresh.pc = "download6"
    /\ \/ refresh' = [ refresh EXCEPT !.pc = "load", !.nets = << >>,
                                      !.todo = DOMAIN ipv4_dir ]
       \/ refresh' = [ refresh EXCEPT !.pc = "except" ]
    /\ UNCHANGED << country_nets, last_refresh_ts, ZONE_DEFS, zones_file, ipv4_url,
                    ipv4_tar, ipv4_dir, handler >>
    /\ UNCHANGED call

\* One file of the loop of load_country_nets_from_disk (lines 420-438), in
\* the order glob yields them
R_LoadFile ==
    /\ refresh.pc = "load"
    /\ \E stem \in refresh.todo :
          IF ReadRaises(stem, ipv4_dir[stem])
          THEN /\ refresh' = [ refresh EXCEPT !.pc = "except" ]
               /\ country_nets' = CatalogWhileLoading(country_nets, refresh.nets)
          ELSE /\ refresh' = [ refresh EXCEPT
                                 !.nets = LoadZoneFile(@, stem, ipv4_dir[stem]),
                                 !.todo = @ \ { stem } ]
               /\ country_nets' = CatalogWhileLoading(country_nets, refresh'.nets)
    /\ UNCHANGED << last_refresh_ts, ZONE_DEFS, zones_file, ipv4_url, ipv4_tar,
                    ipv4_dir, handler >>
    /\ UNCHANGED call

\* lines 440-442: the new dict is published
R_Publish ==
    /\ refresh.pc = "load"
    /\ refresh.todo = {}
    /\ country_nets' = refresh.nets
    /\ last_refresh_ts' = Some(refresh.cycle)
    /\ refresh' = [ refresh EXCEPT !.pc = "loaded" ]
    /\ UNCHANGED << ZONE_DEFS, zones_file, ipv4_url, ipv4_tar, ipv4_dir, handler >>
    /\ UNCHANGED call

\* refresh_geoip_full returns
R_Return ==
    /\ refresh.pc = "loaded"
    /\ refresh' = [ refresh EXCEPT !.pc = "sleep" ]
    /\ UNCHANGED << country_nets, last_refresh_ts, ZONE_DEFS, zones_file, ipv4_url,
                    ipv4_tar, ipv4_dir, handler >>
    /\ UNCHANGED call

\* the except branch of refresh_geoip_full (lines 451-452)
R_Except ==
    /\ refresh.pc = "except"
    /\ country_nets' = CatalogAfterError(country_nets)
    /\ refresh' = [ refresh EXCEPT !.pc = "failed" ]
    /\ UNCHANGED << last_refresh_ts, ZONE_DEFS, zones_file, ipv4_url, ipv4_tar,
                    ipv4_dir, handler >>
    /\ UNCHANGED call

\* (R_ReturnFailedStops is the error ending the loop.)
R_ReturnFailedStops ==
    /\ refresh.pc = "failed"
    /\ refresh' = [ refresh EXCEPT !.pc = "stopped" ]
    /\ UNCHANGED << country_nets, last_refresh_ts, ZONE_DEFS, zones_file, ipv4_url,
                    ipv4_tar, ipv4_dir, handler >>
    /\ UNCHANGED call

\* refresh_geoip_full returns after an error
R_ReturnFailed ==
    /\ refresh.pc = "failed"
    /\ refresh' = [ refresh EXCEPT !.pc = "sleep" ]
    /\ UNCHANGED << country_nets, last_refresh_ts, ZONE_DEFS, zones_file, ipv4_url,
                    ipv4_tar, ipv4_dir, handler >>
    /\ UNCHANGED call

\* the sleep of the loop ends (lines 464-467)
R_Wake ==
    /\ refresh.pc = "sleep"
    /\ refresh.cycle < MaxCycles
    /\ refresh' = [ refresh EXCEPT !.pc = "begin", !.cycle = @ + 1 ]
    /\ UNCHANGED << country_nets, last_refresh_ts, ZONE_DEFS, zones_file, ipv4_url,
                    ipv4_tar, ipv4_dir, handler >>
    /\ UNCHANGED call

\* The operator edits the zone files (between two runs of the task)
E_EditZones ==
    /\ refresh.pc \in { "init", "sleep" }
    /\ handler.pc = "idle"
    /\ \E k \in ConcZoneSources : k # zones_file /\ zones_file' = k
    /\ UNCHANGED << country_nets, last_refresh_ts, ZONE_DEFS, ipv4_url, ipv4_tar,
                    ipv4_dir, refresh, handler >>
    /\ UNCHANGED call

\* ------------------------------------------------------------------------
\* The request handler, run in a worker thread beside the refresh task
\* ------------------------------------------------------------------------

\* A request is accepted and handed to a worker thread.  The event loop does
\* this, and the refresh task holds the event loop from its start to its
\* sleep (lines 455-467: the refresh is synchronous code inside the
\* coroutine); a handler that is already running goes on beside the task.
H_Enter ==
    /\ handler.pc = "idle"
    /\ refresh.pc = "sleep"
    /\ \E r \in ConcRequests : handler' = EnterHandler(r)
    /\ UNCHANGED << country_nets, last_refresh_ts, ZONE_DEFS, zones_file, ipv4_url,
                    ipv4_tar, ipv4_dir, refresh >>
    /\ UNCHANGED call

\* (H_StepSortsInPlace is a step that sorts the lists of the catalog in place
\* instead of sorting copies of them.)
H_StepSortsInPlace ==
    /\ handler.pc \notin { "idle", "done" }
    /\ handler' = HandlerStep(handler, country_nets, ZONE_DEFS)
    /\ country_nets' = [ c \in DOMAIN country_nets |-> SortedByAddress(country_nets[c]) ]
    /\ UNCHANGED << last_refresh_ts, ZONE_DEFS, zones_file, ipv4_url,
                    ipv4_tar, ipv4_dir, refresh >>
    /\ UNCHANGED call

\* One step of the handler, which reads the globals as they are now
H_Step ==
    /\ handler.pc \notin { "idle", "done" }
    /\ handler' = HandlerStep(handler, country_nets, ZONE_DEFS)
    /\ UNCHANGED << country_nets, last_refresh_ts, ZONE_DEFS, zones_file, ipv4_url,
                    ipv4_tar, ipv4_dir, refresh >>
    /\ UNCHANGED call

\* The response is sent, which the event loop does as well
H_Return ==
    /\ handler.pc = "done"
    /\ refresh.pc = "sleep"
    /\ handler' = IdleHandler
    /\ UNCHANGED << country_nets, last_refresh_ts, ZONE_DEFS, zones_file, ipv4_url,
                    ipv4_tar, ipv4_dir, refresh >>
    /\ UNCHANGED call

\* No helper function is being called on its own
NoCall == [ fn |-> "none", args |-> << >>, result |-> << >> ]

\* The state after on_startup (lines 470-476): the zones are loaded, the
\* refresh task is created, the catalog is empty.  With GEOIP_IPV4_URL set
\* the IPv4 directory starts empty, without it the directory holds what an
\* earlier deployment extracted.
Init ==
    /\ country_nets = << >>
    /\ last_refresh_ts = None
    /\ zones_file \in ConcZoneSources
    /\ ZONE_DEFS = ZoneDefsOf(zones_file)
    /\ ipv4_url \in BOOLEAN
    /\ ipv4_tar = 0
    /\ ipv4_dir = IF ipv4_url THEN << >> ELSE ArchiveA.files
    /\ refresh = RefreshTask("init", 0, << >>, {}, << >>)
    /\ handler = IdleHandler
    /\ call = NoCall

Next ==
    \/ R_LoopStart
    \/ R_Begin
    \/ R_Download4
    \/ R_Extract4
    \/ R_Download6
    \/ R_LoadFile
    \/ R_Publish
    \/ R_Return
    \/ R_Except
    \/ R_ReturnFailed
    \/ R_Wake
    \/ E_EditZones
    \/ H_Enter
    \/ H_Step
    \/ H_Return

Spec == Init /\ [][Next]_vars

\* The steps of the refresh task.  Each of them ends: the code between two
\* sleeps is synchronous, the download has a timeout (line 335), and the
\* sleep of line 465 ends after the period.
RefreshNext ==
    \/ R_LoopStart
    \/ R_Begin
    \/ R_Download4
    \/ R_Extract4
    \/ R_Download6
    \/ R_LoadFile
    \/ R_Publish
    \/ R_Return
    \/ R_Except
    \/ R_ReturnFailed
    \/ R_Wake

\* The refresh task with no request being served: a handler runs in a worker
\* thread and no step of the task waits for one.  The zone files may or may
\* not be edited.  Once the task is in its cycles, every step of a cycle
\* that can be taken is taken.
NextLoop == RefreshNext \/ E_EditZones

SpecLoop ==
    /\ Init
    /\ [][NextLoop]_vars
    /\ WF_vars(R_Begin)
    /\ WF_vars(R_Download4)
    /\ WF_vars(R_Extract4)
    /\ WF_vars(R_Download6)
    /\ WF_vars(R_LoadFile)
    /\ WF_vars(R_Publish)
    /\ WF_vars(R_Return)
    /\ WF_vars(R_Except)
    /\ WF_vars(R_ReturnFailed)
    /\ WF_vars(R_Wake)

\* ------------------------------------------------------------------------
\* The handlers as functions of the request and an unchanging catalog
\* ------------------------------------------------------------------------

InitGen ==
    /\ country_nets \in { CatalogOfDir(d) : d \in LoadableDirs }
    /\ last_refresh_ts = IF country_nets = << >> THEN None ELSE Some(0)
    /\ zones_file \in 1..Len(ZoneSources)
    /\ ZONE_DEFS = ZoneDefsOf(zones_file)
    /\ ipv4_url = TRUE
    /\ ipv4_tar = 0
    /\ ipv4_dir = << >>
    /\ refresh = RefreshTask("sleep", MaxCycles, << >>, {}, country_nets)
    /\ handler = IdleHandler
    /\ call = NoCall

\* A request is served from entry to response
G_Serve ==
    /\ handler.pc = "idle"
    /\ \E r \in GenRequests :
          handler' = RunHandler(EnterHandler(r), country_nets, ZONE_DEFS)
    /\ UNCHANGED << country_nets, last_refresh_ts, ZONE_DEFS, zones_file, ipv4_url,
                    ipv4_tar, ipv4_dir, refresh >>
    /\ UNCHANGED call

\* The same request is sent again (the runs are bounded: MaxRuns in a row,
\* and none after a run with added tokens)
G_Again ==
    /\ handler.pc = "done"
    /\ handler.run < MaxRuns
    /\ handler.base = None
    /\ handler' = [ RunHandler(EnterHandler(handler.req), country_nets, ZONE_DEFS)
                      EXCEPT !.run = handler.run + 1,
                             !.prev_response = handler.response ]
    /\ UNCHANGED << country_nets, last_refresh_ts, ZONE_DEFS, zones_file, ipv4_url,
                    ipv4_tar, ipv4_dir, refresh >>
    /\ UNCHANGED call

\* The request with invalid tokens added, in front of its own tokens or
\* behind them: country and zone codes that are nowhere defined, blank
\* tokens, copies of its own tokens in the other case with white space
\* around them, and custom lines that are malformed or IPv6.
WithInvalidTokens(r, front) ==
    LET bad_cc == << << "q", "q" >>, << " " >>, << "c", "h", "x" >> >>
        bad_zone == << << "Q", "Q" >>, << >> >>
        bad_lines == << JunkLine, V6Line >>
        cc_copies == [ i \in 1..Len(r.cc) |-> << " " >> \o Upper(r.cc[i]) \o << "\t" >> ]
        zone_copies == [ i \in 1..Len(r.zone) |-> << " " >> \o Lower(r.zone[i]) ]
        lines == IF r.custom_param = None THEN << >> ELSE r.custom_param[1]
    IN  Request(r.endpoint,
                IF front THEN bad_cc \o cc_copies \o r.cc ELSE r.cc \o cc_copies \o bad_cc,
                IF front THEN bad_zone \o zone_copies \o r.zone
                         ELSE r.zone \o zone_copies \o bad_zone,
                r.name, r.aggregate_param,
                Some(IF front THEN bad_lines \o lines ELSE lines \o bad_lines))

\* A request with a valid selection (lines 1223 and 1331) has been answered,
\* and is sent again with invalid tokens added
G_WithInvalidTokens ==
    /\ handler.pc = "done"
    /\ handler.run = 1
    /\ handler.base = None
    /\ \/ handler.selected_countries # << >>
       \/ handler.selected_zones # << >>
       \/ handler.custom_nets # << >>
    /\ \E front \in BOOLEAN :
          handler' = [ RunHandler(EnterHandler(WithInvalidTokens(handler.req, front)),
                                  country_nets, ZONE_DEFS)
                         EXCEPT !.prev_response = handler.response,
                                !.base = Some(handler.req) ]
    /\ UNCHANGED << country_nets, last_refresh_ts, ZONE_DEFS, zones_file, ipv4_url,
                    ipv4_tar, ipv4_dir, refresh >>
    /\ UNCHANGED call

G_Return ==
    /\ handler.pc = "done"
    /\ handler' = IdleHandler
    /\ UNCHANGED << country_nets, last_refresh_ts, ZONE_DEFS, zones_file, ipv4_url,
                    ipv4_tar, ipv4_dir, refresh >>
    /\ UNCHANGED call

NextGen == G_Serve \/ G_Again \/ G_WithInvalidTokens \/ G_Return

SpecGen == InitGen /\ [][NextGen]_vars

\* ------------------------------------------------------------------------
\* The helper functions called on their own
\* ------------------------------------------------------------------------

\* The characters of the names offered to normalize_list_name and
\* normalize_prefix
NameAlphabet == { "a", "Z", "7", "_", "-", "!", " " }

\* The str of a length up to n over the alphabet
StrsUpTo(n) == UNION { [ 1..k -> NameAlphabet ] : k \in 0..n }

\* "a" * n
Pad(n) == [ i \in 1..n |-> "a" ]

\* The list names and prefixes a caller supplies: absent, short ones, and
\* ones about as long as the two limits
NameInputs ==
    { None }
       \cup { Some(t) : t \in StrsUpTo(MaxNameLen) }
       \cup { Some(Pad(k) \o t) :
                 k \in { PrefixMax - 1, PrefixMax, ListNameMax - 1, ListNameMax },
                 t \in StrsUpTo(2) }

\* The values of GEOIP_COUNTRY_PREFIX an operator may set
DefaultPrefixes ==
    { GEOIP_COUNTRY_PREFIX, << >>, << "-" >>, << "!", "x", "-" >>, Pad(PrefixMax - 1) \o << "-", "b" >> }

\* The networks inside the lowest eight addresses, and the lists of them
\* offered to maybe_collapse_networks
NetPool ==
    { Net(k * Pow2(AddrBits - p), p) : p \in (AddrBits - 3)..AddrBits, k \in 0..7 }
       \cap { n \in [ network_address : 0..7, prefixlen : 0..AddrBits ] :
                 n.network_address + NumAddresses(n) <= 8 }

NetLists == UNION { [ 1..k -> NetPool ] : k \in 0..MaxNets }

\* The entries a zones document may hold: a zone with two members, one of
\* them a three-letter code, a zone with no member, a key that is no str, a
\* blank key, a value that is no list
ZoneEntries ==
    << << PyStr(<< "e", "u" >>),
          PyList(<< PyStr(<< "C", "H" >>), PyStr(<< " ", "U", "s", "a" >>) >>) >>,
       << PyStr(<< "X", "X" >>), PyList(<< >>) >>,
       << PyInt(5), PyList(<< PyStr(S_us) >>) >>,
       << PyStr(<< " " >>), PyList(<< PyStr(S_us) >>) >>,
       << PyStr(S_NA), PyStr(S_us) >> >>

\* The choices of entries of a document: sequences of distinct places in
\* ZoneEntries (whose keys are distinct)
ZoneEntryChoices ==
    { ks \in UNION { [ 1..k -> DOMAIN ZoneEntries ] : k \in 0..MaxZones } :
         \A i, j \in 1..Len(ks) : i # j => ks[i] # ks[j] }

EntriesOf(ks) == [ i \in 1..Len(ks) |-> ZoneEntries[ks[i]] ]

\* An entry written as an item {code: ..., countries: ...}
ZoneItem(e) == PyDict(<< << PyStr(Str_code), e[1] >>, << PyStr(Str_countries), e[2] >> >>)

ItemsOf(ks) == [ i \in 1..Len(ks) |-> ZoneItem(ZoneEntries[ks[i]]) ]

\* What GEOIP_ZONES_FILE may be: missing, unreadable or malformed, empty, a
\* scalar, or entries as a mapping, as a mapping under "zones", as a list of
\* items, as a list of items under "zones"
YamlForms ==
    { "missing", "malformed", "empty", "scalar", "mapping", "zones-mapping", "items",
      "zones-items" }

YamlFile(form, ks) ==
    CASE form = "missing" -> NoFile
      [] form = "malformed" -> File(TRUE, FALSE, PyNone)
      [] form = "empty" -> File(TRUE, TRUE, PyNone)
      [] form = "scalar" -> File(TRUE, TRUE, PyStr(S_zz))
      [] form = "mapping" -> File(TRUE, TRUE, PyDict(EntriesOf(ks)))
      [] form = "zones-mapping" ->
            File(TRUE, TRUE, PyDict(<< << PyStr(Str_zones), PyDict(EntriesOf(ks)) >> >>))
      [] form = "items" -> File(TRUE, TRUE, PyList(ItemsOf(ks)))
      [] form = "zones-items" ->
            File(TRUE, TRUE, PyDict(<< << PyStr(Str_zones), PyList(ItemsOf(ks)) >> >>))

\* What LEGACY_ZONE_CONFIG_FILE may be: missing, malformed, a list, an empty
\* mapping, a mapping with one zone
LegacyForms == { "missing", "malformed", "list", "empty-mapping", "mapping" }

LegacyFile(form) ==
    CASE form = "missing" -> NoFile
      [] form = "malformed" -> File(TRUE, FALSE, PyNone)
      [] form = "list" -> File(TRUE, TRUE, PyList(<< >>))
      [] form = "empty-mapping" -> File(TRUE, TRUE, PyDict(<< >>))
      [] form = "mapping" ->
            File(TRUE, TRUE, PyDict(<< << PyStr(S_NA), PyList(<< PyStr(S_us) >>) >> >>))

Call(fn, args, result) == [ fn |-> fn, args |-> args, result |-> result ]

F_NormalizeListName ==
    /\ call = NoCall
    /\ \E raw \in NameInputs :
          call' = Call("normalize_list_name", << raw >>, normalize_list_name(raw))
    /\ UNCHANGED << country_nets, last_refresh_ts, ZONE_DEFS, zones_file, ipv4_url,
                    ipv4_tar, ipv4_dir, refresh, handler >>

F_NormalizePrefix ==
    /\ call = NoCall
    /\ \E raw \in NameInputs, default_prefix \in DefaultPrefixes :
          call' = Call("normalize_prefix", << raw, default_prefix >>,
                       normalize_prefix(raw, default_prefix))
    /\ UNCHANGED << country_nets, last_refresh_ts, ZONE_DEFS, zones_file, ipv4_url,
                    ipv4_tar, ipv4_dir, refresh, handler >>

F_MaybeCollapseNetworks ==
    /\ call = NoCall
    /\ \E nets \in NetLists, aggregate \in BOOLEAN :
          call' = Call("maybe_collapse_networks", << nets, aggregate >>,
                       maybe_collapse_networks(nets, aggregate))
    /\ UNCHANGED << country_nets, last_refresh_ts, ZONE_DEFS, zones_file, ipv4_url,
                    ipv4_tar, ipv4_dir, refresh, handler >>

\* load_zone_defs publishes its result in ZONE_DEFS (line 267)
F_LoadZoneDefs ==
    /\ call = NoCall
    /\ \E yform \in YamlForms, ks \in ZoneEntryChoices, lform \in LegacyForms :
          /\ ZONE_DEFS' = load_zone_defs(YamlFile(yform, ks), LegacyFile(lform))
          /\ call' = Call("load_zone_defs", << yform, ks, lform >>, << >>)
    /\ UNCHANGED << country_nets, last_refresh_ts, zones_file, ipv4_url, ipv4_tar,
                    ipv4_dir, refresh, handler >>

F_Return ==
    /\ call # NoCall
    /\ call' = NoCall
    /\ UNCHANGED << country_nets, last_refresh_ts, ZONE_DEFS, zones_file, ipv4_url,
                    ipv4_tar, ipv4_dir, refresh, handler >>

InitFn ==
    /\ country_nets = << >>
    /\ last_refresh_ts = None
    /\ zones_file = 3
    /\ ZONE_DEFS = ZoneDefsOf(zones_file)
    /\ ipv4_url = TRUE
    /\ ipv4_tar = 0
    /\ ipv4_dir = << >>
    /\ refresh = RefreshTask("sleep", MaxCycles, << >>, {}, << >>)
    /\ handler = IdleHandler
    /\ call = NoCall

NextFn ==
    \/ F_NormalizeListName
    \/ F_NormalizePrefix
    \/ F_MaybeCollapseNetworks
    \/ F_LoadZoneDefs
    \/ F_Return

SpecFn == InitFn /\ [][NextFn]_vars

\* ------------------------------------------------------------------------
\* Properties of the refresh task and of a handler running beside it (Spec)
\* ------------------------------------------------------------------------

\* The catalogs a complete load of a directory yields
CompleteCatalogs == { CatalogOfDir(d) : d \in LoadableDirs }

\* The catalog a complete load of the IPv4 directory yields, written without
\* the loader: a code is a key when a file with a two-letter stem spelling it
\* has a valid IPv4 line, and its networks are those of that file.
CodesOnDisk ==
    { Lower(stem) : stem \in { t \in DOMAIN ipv4_dir :
                                 /\ Len(t) = 2
                                 /\ IsAlpha(t)
                                 /\ \E i \in DOMAIN ipv4_dir[t].lines :
                                        ParseIPv4Line(ipv4_dir[t].lines[i]) # None } }

IsCompleteLoadOfDisk(cat) ==
    /\ DOMAIN cat = CodesOnDisk
    /\ \A c \in DOMAIN cat :
          \E stem \in DOMAIN ipv4_dir :
             /\ Lower(stem) = c
             /\ cat[c] = ParseLines(ipv4_dir[stem].lines)

\* The handler is between its entry and its response
HandlerRunning == handler.pc \notin { "idle", "done" }

\* C1: the catalog of a refresh is built aside and published in one
\* assignment: from the start of a rebuild to its publication the global
\* catalog is the one published before, right after the publication it is
\* the complete new one, and every catalog a handler reads is a complete one.
C1_AtomicPublication ==
    /\ refresh.pc \in { "download4", "extract4", "download6", "load" }
          => country_nets = refresh.cat_at_start
    /\ refresh.pc = "loaded"
          => /\ country_nets = refresh.nets
             /\ IsCompleteLoadOfDisk(country_nets)
    /\ \A cat \in handler.cat_sel \cup handler.cat_emit : cat \in CompleteCatalogs

\* C1 witness: a handler has read the catalog and is still running while a
\* periodic rebuild has filled a part of its new dict, which differs from
\* the published catalog.
C1_Witness ==
    /\ refresh.pc = "load"
    /\ refresh.cycle >= 1
    /\ refresh.nets # << >>
    /\ refresh.todo # {}
    /\ refresh.nets # country_nets
    /\ country_nets # << >>
    /\ HandlerRunning
    /\ handler.cat_sel # {}

\* C2: every read of the catalog and of the zone registry a handler makes
\* while it builds one response sees the same value.
C2_CoherentSnapshot ==
    handler.pc = "done"
       => /\ Cardinality(handler.cat_sel \cup handler.cat_emit) <= 1
          /\ Cardinality(handler.zd_sel \cup handler.zd_emit) <= 1

\* C3: when a step of a refresh fails, the catalog is the one from before the
\* cycle.
C3_FailedRefreshKeepsCatalog ==
    refresh.pc \in { "except", "failed" } => country_nets = refresh.cat_at_start

\* C3 witness: a periodic refresh has failed on a corrupt archive after the
\* zone files on disk were deleted, and the catalog published before is
\* still there.
C3_Witness ==
    /\ refresh.pc = "failed"
    /\ refresh.cycle >= 1
    /\ ipv4_dir = << >>
    /\ country_nets # << >>
    /\ country_nets = refresh.cat_at_start

\* A response that is a script: the header first, then only swap and add
\* lines
IsScript(lines) ==
    /\ lines # << >>
    /\ lines[1] = HeaderLine
    /\ \A i \in 2..Len(lines) : lines[i].kind \in { "swap", "add" }

\* A response that is the error directive of the endpoint alone
IsErrorOnly(lines, endpoint) ==
    /\ Len(lines) = 1
    /\ lines[1].kind = "error"
    /\ RenderLine(lines[1]) =
          (IF endpoint = "custom"
           THEN ":log error \"GEOIP custom link is wrong, please check online !\""
           ELSE ":log error \"GEOIP geoip.rsc link is wrong, please check online !\"")

\* C6: every response is either a script that starts with the header and
\* holds no error line, or the error line alone; a handler that raised has
\* its exception turned into the error line.
C6_ResponseWellFormed ==
    /\ handler.pc = "done"
          => /\ handler.response # None
             /\ \/ IsScript(handler.response[1])
                \/ IsErrorOnly(handler.response[1], handler.req.endpoint)
    /\ handler.pc = "except"
          => IsErrorOnly(HandlerStep(handler, country_nets, ZONE_DEFS).response[1],
                         handler.req.endpoint)

\* C6 witness: a handler failed on a key that a publication removed between
\* two of its reads, after it had written add lines, and its response is the
\* error line alone.
C6_Witness ==
    /\ handler.pc = "done"
    /\ IsErrorOnly(handler.response[1], handler.req.endpoint)
    /\ \E i \in DOMAIN handler.lines : handler.lines[i].kind = "add"

\* The refresh task is fetching, extracting or parsing
Rebuilding == refresh.pc \in { "download4", "extract4", "download6", "load" }

\* C18: while the refresh task is fetching, extracting or parsing, a request
\* that comes in can be accepted.
C18_RequestAcceptedWhileRebuilding ==
    (Rebuilding /\ handler.pc = "idle") => ENABLED H_Enter

\* A periodic refresh cycle has run to its end and has not yet returned
PeriodicCycleComplete == refresh.pc \in { "loaded", "failed" } /\ refresh.cycle >= 1

\* C23: when a periodic refresh cycle completes, the zone registry is what
\* load_zone_defs gives for the zone files as they were during the cycle.
C23_ZonesReloadedEachCycle ==
    PeriodicCycleComplete => ZONE_DEFS = ZoneDefsOf(zones_file)

\* An IPv4 network: a prefix length and an address with no host bit set
IsIPv4Network(n) ==
    /\ n.prefixlen \in 0..AddrBits
    /\ n.network_address \in 0..(AddrSpace - 1)
    /\ n.network_address % NumAddresses(n) = 0

C27_LoopSurvivesFailure ==
    /\ \A k \in 0..(MaxCycles - 1) :
          (refresh.pc = "failed" /\ refresh.cycle = k)
             ~> (refresh.pc = "begin" /\ refresh.cycle = k + 1)
    /\ [][ /\ refresh'.cycle # refresh.cycle
              => /\ refresh.pc = "sleep"
                 /\ refresh'.pc = "begin"
                 /\ refresh'.cycle = refresh.cycle + 1
           /\ (refresh.pc # "sleep" /\ refresh'.pc = "sleep")
              => refresh.pc \in { "loaded", "failed" } ]_vars

\* C27 witness: the first periodic cycle is downloading and no cycle before
\* it has published a catalog: the initial cycle failed.
C27_Witness ==
    /\ refresh.pc = "download4"
    /\ refresh.cycle = 1
    /\ ipv4_url
    /\ last_refresh_ts = None

\* C28: no step of a request handler, from its entry to its response,
\* successful or failing, changes the catalog, a list of the catalog, the
\* zone registry or the time of the last refresh; the catalog and the time
\* change only where load_country_nets_from_disk publishes, the zone
\* registry only where the refresh task loads the zones.
C28_HandlersWriteNoSharedState ==
    [][ /\ handler' # handler
           => UNCHANGED << country_nets, ZONE_DEFS, last_refresh_ts >>
        /\ (country_nets' # country_nets \/ last_refresh_ts' # last_refresh_ts)
           => (refresh.pc = "load" /\ refresh'.pc = "loaded")
        /\ ZONE_DEFS' # ZONE_DEFS
           => (refresh.pc = "init" /\ refresh'.pc = "begin") ]_vars

\* C28 witness: a handler has answered with a script whose zone lines were
\* read from the catalog that is still the published one, a catalog with a
\* list that is not in the order of its addresses.
C28_Witness ==
    /\ handler.pc = "done"
    /\ handler.response # None
    /\ IsScript(handler.response[1])
    /\ handler.selected_zones # << >>
    /\ handler.cat_emit = { country_nets }
    /\ \E c \in DOMAIN country_nets : country_nets[c] # SortedByAddress(country_nets[c])

\* C29: a publication never replaces a catalog that is not empty with an
\* empty one.
C29_CatalogStaysNonEmpty ==
    [][ country_nets # << >> => country_nets' # << >> ]_vars

\* ------------------------------------------------------------------------
\* Properties of the handlers against an unchanging catalog (SpecGen)
\* ------------------------------------------------------------------------

\* The country codes of a request that are keys of the catalog, and its zone
\* codes that are keys of the zone registry
SelectedCountries(req, CN) == { Lower(Strip(t)) : t \in Range(req.cc) } \cap DOMAIN CN

SelectedZones(req, ZD) == { Upper(Strip(t)) : t \in Range(req.zone) } \cap DOMAIN ZD

CustomYieldsNothing(req) ==
    \/ req.custom_param = None
    \/ \A i \in DOMAIN req.custom_param[1] : ParseIPv4Line(req.custom_param[1][i]) = None

EmptySelection(req, CN, ZD) ==
    /\ SelectedCountries(req, CN) = {}
    /\ SelectedZones(req, ZD) = {}
    /\ CustomYieldsNothing(req)

\* The networks of the members of a zone that the catalog holds
ZoneNetsPresent(z, CN, ZD) == UNION { Range(CN[m]) : m \in Range(ZD[z]) \cap DOMAIN CN }

\* A non-empty selection with no network behind it
EmptyResolution(req, CN, ZD) ==
    /\ ~EmptySelection(req, CN, ZD)
    /\ \A c \in SelectedCountries(req, CN) : CN[c] = << >>
    /\ \A z \in SelectedZones(req, ZD) : ZoneNetsPresent(z, CN, ZD) = {}
    /\ CustomYieldsNothing(req)

\* The response of the handler that has answered
Response == handler.response[1]

Answered == handler.pc = "done" /\ handler.response # None

\* C4: a request none of whose country tokens is in the catalog, none of
\* whose zone tokens is in the zone registry and whose custom text yields no
\* IPv4 network is answered with the error line of its endpoint and nothing
\* else, in both modes.
C4_EmptySelectionIsError ==
    (handler.pc = "done" /\ EmptySelection(handler.req, country_nets, ZONE_DEFS))
       => /\ handler.response # None
          /\ IsErrorOnly(Response, handler.req.endpoint)
          /\ \A i \in DOMAIN Response : Response[i] # HeaderLine

\* C4 witness: a multi-list request with country tokens, zone tokens and
\* custom text, none of them valid, against a catalog that is not empty, is
\* answered with the error line.
C4_Witness ==
    /\ Answered
    /\ handler.req.endpoint = "geoip"
    /\ country_nets # << >>
    /\ handler.req.cc # << >>
    /\ handler.req.zone # << >>
    /\ handler.req.custom_param # None
    /\ \E i \in DOMAIN handler.req.custom_param[1] :
          handler.req.custom_param[1][i].kind # "blank"
    /\ EmptySelection(handler.req, country_nets, ZONE_DEFS)
    /\ IsErrorOnly(Response, "geoip")

\* C5: a request whose selection is not empty but resolves to no network is
\* answered with the error line alone, in both modes.
C5_EmptyResolutionIsError ==
    (handler.pc = "done" /\ EmptyResolution(handler.req, country_nets, ZONE_DEFS))
       => /\ handler.response # None
          /\ IsErrorOnly(Response, handler.req.endpoint)

\* The add lines of a response
AddIndices(lines) == { i \in DOMAIN lines : lines[i].kind = "add" }

\* C7: no response holds two add lines with the same list and the same
\* address.
C7_NoDuplicateInList ==
    handler.pc = "done"
       => \A i, j \in AddIndices(Response) :
             (i < j /\ Response[i].list = Response[j].list)
                => Response[i].address # Response[j].address

\* C7 witness: a single-list script without aggregation for a country whose
\* file gives a network twice and that is also a member of a selected zone.
C7_Witness ==
    /\ Answered
    /\ handler.req.endpoint = "custom"
    /\ handler.req.aggregate_param = 0
    /\ IsScript(Response)
    /\ \E c \in SelectedCountries(handler.req, country_nets) :
          /\ Len(country_nets[c]) > Cardinality(Range(country_nets[c]))
          /\ \E z \in SelectedZones(handler.req, ZONE_DEFS) : c \in Range(ZONE_DEFS[z])
          /\ \E i \in AddIndices(Response) : Response[i].comment = Some(Upper(c))

\* Every network of the address space, the addresses of a network, and the
\* minimal set of prefixes that covers exactly the addresses of a set of
\* networks: the networks that lie within those addresses and whose supernet
\* does not.
AllNets ==
    { Net(k * Pow2(AddrBits - p), p) : p \in 0..AddrBits, k \in 0..(AddrSpace - 1) }
       \cap { n \in [ network_address : 0..(AddrSpace - 1), prefixlen : 0..AddrBits ] :
                 n.network_address + NumAddresses(n) <= AddrSpace }

Addresses(n) == n.network_address .. BroadcastAddress(n)

MinimalCover(S) ==
    LET covered == UNION { Addresses(n) : n \in S }
    IN  { n \in AllNets :
            /\ Addresses(n) \subseteq covered
            /\ n.prefixlen = 0 \/ ~(Addresses(Supernet(n)) \subseteq covered) }

\* The CIDR literals a set of networks is written as, collapsed or as it is
KeysOf(S, aggregate) ==
    { WithPrefixlen(n) : n \in (IF aggregate THEN MinimalCover(S) ELSE S) }

\* The addresses of the add lines of the response that carry a tag
TaggedKeys(tag) ==
    { Response[i].address : i \in { k \in AddIndices(Response) : Response[k].comment = Some(tag) } }

Aggregating == handler.req.aggregate_param = 1

CountryTags == { Upper(c) : c \in SelectedCountries(handler.req, country_nets) }

\* A zone with a member the catalog holds and a member it does not
PartlyPresent(z, CN, ZD) ==
    /\ \E m \in Range(ZD[z]) : m \in DOMAIN CN
    /\ \E m \in Range(ZD[z]) : m \notin DOMAIN CN

\* C8: in single-list mode a selected zone of whose members some are in the
\* catalog and some are not does not fail the request: every network of the
\* present members has its add line, tagged with the zone code unless a
\* selected country or an earlier zone wrote it first, and the lines tagged
\* with the zone code are networks of the present members only.
C8_ZoneWithAbsentMembers ==
    (handler.pc = "done" /\ handler.req.endpoint = "custom")
       => \A z \in SelectedZones(handler.req, ZONE_DEFS) :
             PartlyPresent(z, country_nets, ZONE_DEFS)
                => LET expected == KeysOf(ZoneNetsPresent(z, country_nets, ZONE_DEFS),
                                          Aggregating)
                       earlier == CountryTags \cup
                                     { y \in SelectedZones(handler.req, ZONE_DEFS) :
                                          StrLess(y, z) }
                   IN  /\ handler.response # None
                       /\ IsScript(Response)
                       /\ \A k \in expected :
                             \E i \in AddIndices(Response) :
                                /\ Response[i].address = k
                                /\ Response[i].comment # None
                                /\ Response[i].comment[1] \in earlier \cup { z }
                       /\ z \notin CountryTags => TaggedKeys(z) \subseteq expected
                       /\ earlier = {} => TaggedKeys(z) = expected

\* C8 witness: a single-list script for a zone with an absent member and a
\* present one holds a line tagged with the zone code.
C8_Witness ==
    /\ Answered
    /\ handler.req.endpoint = "custom"
    /\ IsScript(Response)
    /\ \E z \in SelectedZones(handler.req, ZONE_DEFS) :
          /\ PartlyPresent(z, country_nets, ZONE_DEFS)
          /\ TaggedKeys(z) # {}

\* The countries whose lines a tag tells from the lines of the zones
UntangledCountries ==
    { c \in SelectedCountries(handler.req, country_nets) :
         Upper(c) \notin SelectedZones(handler.req, ZONE_DEFS) }

\* C9 as stated: in single-list mode with aggregate=1 the add lines of a
\* selected country are the minimal covering prefixes of its networks.
C9_CountryLinesAreMinimalCover ==
    (handler.pc = "done" /\ handler.req.endpoint = "custom" /\ Aggregating)
       => \A c \in UntangledCountries :
             TaggedKeys(Upper(c)) = KeysOf(Range(country_nets[c]), TRUE)

\* C9 amended: in single-list mode with aggregate=1 the add lines of a
\* selected country are the minimal covering prefixes of its networks, less
\* the prefixes written for a selected country earlier in the order of the
\* codes.
C9_CountryLinesAreNewMinimalCover ==
    (handler.pc = "done" /\ handler.req.endpoint = "custom" /\ Aggregating)
       => \A c \in UntangledCountries :
             TaggedKeys(Upper(c)) =
                KeysOf(Range(country_nets[c]), TRUE)
                   \ UNION { KeysOf(Range(country_nets[b]), TRUE) :
                                b \in { a \in SelectedCountries(handler.req, country_nets) :
                                           StrLess(a, c) } }

\* C9 witness: an aggregated single-list script in which a country has
\* fewer prefixes than networks, and a later country has one of its
\* covering prefixes written by an earlier one.
C9_Witness ==
    /\ Answered
    /\ handler.req.endpoint = "custom"
    /\ Aggregating
    /\ \E c \in UntangledCountries :
          /\ TaggedKeys(Upper(c)) # {}
          /\ TaggedKeys(Upper(c)) = KeysOf(Range(country_nets[c]), TRUE)
          /\ Cardinality(TaggedKeys(Upper(c))) < Cardinality(Range(country_nets[c]))
          /\ \E d \in UntangledCountries :
                /\ StrLess(c, d)
                /\ KeysOf(Range(country_nets[d]), TRUE) \cap TaggedKeys(Upper(c)) # {}

CustomNets(req) ==
    IF req.custom_param = None THEN {}
    ELSE { ParseIPv4Line(req.custom_param[1][i])[1] :
              i \in { k \in DOMAIN req.custom_param[1] :
                         ParseIPv4Line(req.custom_param[1][k]) # None } }

\* The countries a multi-list request selects: its own valid ones and the
\* members of its valid zones that the catalog holds
MultiListCountries(req, CN, ZD) ==
    SelectedCountries(req, CN)
       \cup UNION { Range(ZD[z]) \cap DOMAIN CN : z \in SelectedZones(req, ZD) }

\* The sanitized prefix of a multi-list request
SanitizedPrefix(req) == normalize_prefix(req.name, GEOIP_COUNTRY_PREFIX)

\* The list a line of a script belongs to: the one of the last swap line
\* before it
RECURSIVE ListAt(_, _)
ListAt(lines, i) ==
    IF i = 0 THEN << >>
    ELSE IF lines[i].kind = "swap" THEN lines[i].list
    ELSE ListAt(lines, i - 1)

SwapIndices(lines) == { i \in DOMAIN lines : lines[i].kind = "swap" }

\* C13: in a multi-list script the lists are named sanitized prefix, "-",
\* and the lowercase code of a selected country, the code of a selected zone
\* as stored, or "custom" for the custom networks, which go to that list;
\* prefix "acme!" and country ch give the list "acme_-ch".
C13_MultiListNames ==
    (handler.pc = "done" /\ handler.req.endpoint = "geoip" /\ handler.response # None
        /\ IsScript(Response))
       => LET req == handler.req
              P == SanitizedPrefix(req)
              countries == MultiListCountries(req, country_nets, ZONE_DEFS)
              zones == SelectedZones(req, ZONE_DEFS)
          IN  /\ { Response[i].list : i \in SwapIndices(Response) } =
                    { P \o << "-" >> \o Lower(c) : c \in countries }
                       \cup { P \o << "-" >> \o z : z \in zones }
                       \cup (IF CustomNets(req) = {} THEN {}
                             ELSE { P \o << "-", "c", "u", "s", "t", "o", "m" >> })
              /\ \A i \in AddIndices(Response) : Response[i].list = ListAt(Response, i)
              /\ { Response[i].address :
                      i \in { k \in AddIndices(Response) :
                                 Response[k].list = P \o << "-", "c", "u", "s", "t", "o", "m" >> } }
                    = KeysOf(CustomNets(req), Aggregating)
              /\ (req.name = Some(<< "a", "c", "m", "e", "!" >>) /\ S_ch \in countries)
                    => \E i \in SwapIndices(Response) :
                          /\ Join(Response[i].list) = "acme_-ch"
                          /\ RenderLine(Response[i]) =
                                ":do { set [find list=acme_-ch] list=acme_-ch-old timeout=00:05:00 } on-error={}"

\* C13 witness: a multi-list script for prefix "acme!", country ch, a zone
\* and custom networks holds the lists acme_-ch, acme_-EU and acme_-custom.
C13_Witness ==
    /\ Answered
    /\ handler.req.endpoint = "geoip"
    /\ IsScript(Response)
    /\ handler.req.name = Some(<< "a", "c", "m", "e", "!" >>)
    /\ \E i, j, k \in SwapIndices(Response) :
          /\ Join(Response[i].list) = "acme_-ch"
          /\ Join(Response[j].list) = "acme_-EU"
          /\ Join(Response[k].list) = "acme_-custom"
          /\ \E a \in AddIndices(Response) : ListAt(Response, a) = Response[k].list

\* The keys a source of a single-list request offers
CountryKeys(c) == KeysOf(Range(country_nets[c]), Aggregating)

ZoneKeys(z) == KeysOf(ZoneNetsPresent(z, country_nets, ZONE_DEFS), Aggregating)

CustomKeys == KeysOf(CustomNets(handler.req), Aggregating)

\* The least of a non-empty set of str
LeastStr(S) == CHOOSE x \in S : \A y \in S \ { x } : StrLess(x, y)

\* The tag of the first source, in the order countries, zones, custom, that
\* offers a key
FirstWriterTag(k) ==
    LET cs == { c \in SelectedCountries(handler.req, country_nets) : k \in CountryKeys(c) }
        zs == { z \in SelectedZones(handler.req, ZONE_DEFS) : k \in ZoneKeys(z) }
    IN  IF cs # {} THEN Upper(LeastStr(cs))
        ELSE IF zs # {} THEN LeastStr(zs)
        ELSE << "C", "u", "s", "t", "o", "m" >>

AllKeys ==
    UNION { CountryKeys(c) : c \in SelectedCountries(handler.req, country_nets) }
       \cup UNION { ZoneKeys(z) : z \in SelectedZones(handler.req, ZONE_DEFS) }
       \cup CustomKeys

\* C19: in a single-list script every key that a selected source offers is
\* written exactly once, with the tag of the first source that offers it:
\* a country before a zone, a zone before the custom networks.
C19_FirstWriterWins ==
    (handler.pc = "done" /\ handler.req.endpoint = "custom" /\ handler.response # None
        /\ IsScript(Response))
       => /\ \A k \in AllKeys :
                /\ Cardinality({ i \in AddIndices(Response) : Response[i].address = k }) = 1
                /\ \A i \in AddIndices(Response) :
                      Response[i].address = k => Response[i].comment = Some(FirstWriterTag(k))
          /\ \A i \in AddIndices(Response) : Response[i].address \in AllKeys

\* C19 witness: a key offered by a selected country, by a selected zone and
\* by the custom networks is in the script once, tagged with the country.
C19_Witness ==
    /\ Answered
    /\ handler.req.endpoint = "custom"
    /\ IsScript(Response)
    /\ \E c \in SelectedCountries(handler.req, country_nets),
          z \in SelectedZones(handler.req, ZONE_DEFS) :
          /\ Upper(c) # z
          /\ \E k \in CountryKeys(c) \cap ZoneKeys(z) \cap CustomKeys :
                /\ Cardinality({ i \in AddIndices(Response) : Response[i].address = k }) = 1
                /\ k \in TaggedKeys(Upper(c))

\* The source that writes a key: its group (1 a country, 2 a zone, 3 the
\* custom networks) and its code
SourceOf(k) ==
    LET cs == { c \in SelectedCountries(handler.req, country_nets) : k \in CountryKeys(c) }
        zs == { z \in SelectedZones(handler.req, ZONE_DEFS) : k \in ZoneKeys(z) }
    IN  IF cs # {} THEN << 1, LeastStr(cs) >>
        ELSE IF zs # {} THEN << 2, LeastStr(zs) >>
        ELSE << 3, << >> >>

SourceBefore(a, b) == a[1] < b[1] \/ (a[1] = b[1] /\ StrLess(a[2], b[2]))

\* The network address a key is written from
AddressOfKey(k) == (CHOOSE n \in AllNets : WithPrefixlen(n) = k).network_address

\* C20: a single-list script is the header, then its only swap directive,
\* which renames the list to its name with the old suffix, then the add
\* lines of the countries in ascending order of their codes, then those of
\* the zones in ascending order of their codes, then those of the custom
\* networks; the add lines of one source are in ascending order of their
\* network addresses.
C20_SingleListOrder ==
    (handler.pc = "done" /\ handler.req.endpoint = "custom" /\ handler.response # None
        /\ IsScript(Response))
       => /\ RenderLine(Response[1]) = "/ip firewall address-list"
          /\ SwapIndices(Response) = { 2 }
          /\ Response[2].list = normalize_list_name(handler.req.name)
          /\ Response[2].old = Response[2].list \o << "-", "o", "l", "d" >>
          /\ \A i \in AddIndices(Response) : Response[i].list = Response[2].list
          /\ \A i, j \in AddIndices(Response) :
                i < j => LET a == SourceOf(Response[i].address)
                             b == SourceOf(Response[j].address)
                         IN  /\ ~SourceBefore(b, a)
                             /\ a = b => AddressOfKey(Response[i].address)
                                            <= AddressOfKey(Response[j].address)

\* C20 witness: a single-list script with lines of a country, of a zone and
\* of the custom networks, two of them or more from one source.
C20_Witness ==
    /\ Answered
    /\ handler.req.endpoint = "custom"
    /\ IsScript(Response)
    /\ \E i, j, k \in AddIndices(Response) :
          /\ SourceOf(Response[i].address)[1] = 1
          /\ SourceOf(Response[j].address)[1] = 2
          /\ SourceOf(Response[k].address)[1] = 3
          /\ i < j
          /\ j < k
    /\ \E i, j \in AddIndices(Response) :
          /\ i < j
          /\ SourceOf(Response[i].address) = SourceOf(Response[j].address)

\* C21: in a multi-list script no two swap directives name the same list,
\* so the lists of the countries, of the zones and of the custom networks
\* never share a name; every add line has the swap directive of its own list
\* before it, and carries no comment.
C21_MultiListStructure ==
    (handler.pc = "done" /\ handler.req.endpoint = "geoip" /\ handler.response # None
        /\ IsScript(Response))
       => /\ \A i, j \in SwapIndices(Response) :
                i # j => Response[i].list # Response[j].list
          /\ \A a \in AddIndices(Response) :
                /\ \E s \in SwapIndices(Response) :
                      /\ s < a
                      /\ Response[s].list = Response[a].list
                      /\ Response[s].old = Response[a].list \o << "-", "o", "l", "d" >>
                /\ Response[a].comment = None
                /\ RenderLine(Response[a]) =
                      "add list=" \o Join(Response[a].list) \o " address="
                         \o Join(Response[a].address) \o " dynamic=yes"

\* C21 witness: a multi-list script holds add lines in the list of country
\* us, in the list of zone US and in the list of the custom networks.
C21_Witness ==
    /\ Answered
    /\ handler.req.endpoint = "geoip"
    /\ IsScript(Response)
    /\ \E i, j, k \in AddIndices(Response) :
          /\ Response[i].list = SanitizedPrefix(handler.req) \o << "-" >> \o S_us
          /\ Response[j].list = SanitizedPrefix(handler.req) \o << "-", "U", "S" >>
          /\ Response[k].list = SanitizedPrefix(handler.req) \o << "-" >> \o Str_custom

\* The addresses of the add lines of the response that go to a list
ListKeys(list_name) ==
    { Response[i].address :
         i \in { k \in AddIndices(Response) : Response[k].list = list_name } }

\* C22: in a multi-list script the list of a selected zone holds the networks
\* of all its members that the catalog holds, collapsed when aggregate is
\* set, whether or not the members were passed as cc; and each such member
\* has a list of its own with its networks.
C22_ZoneListIsUnionOfMembers ==
    (handler.pc = "done" /\ handler.req.endpoint = "geoip" /\ handler.response # None
        /\ IsScript(Response))
       => LET P == SanitizedPrefix(handler.req)
          IN  \A z \in SelectedZones(handler.req, ZONE_DEFS) :
                 /\ ListKeys(P \o << "-" >> \o z) = ZoneKeys(z)
                 /\ \A m \in Range(ZONE_DEFS[z]) \cap DOMAIN country_nets :
                       /\ ListKeys(P \o << "-" >> \o m) = CountryKeys(m)
                       /\ CountryKeys(m) # {}

\* C22 witness: an aggregated multi-list script for a zone with two members
\* in the catalog, neither passed as cc: the zone list is not empty and has
\* fewer lines than the lists of the two members together.
C22_Witness ==
    /\ Answered
    /\ handler.req.endpoint = "geoip"
    /\ IsScript(Response)
    /\ Aggregating
    /\ SelectedCountries(handler.req, country_nets) = {}
    /\ \E z \in SelectedZones(handler.req, ZONE_DEFS) :
          LET P == SanitizedPrefix(handler.req)
              present == Range(ZONE_DEFS[z]) \cap DOMAIN country_nets
          IN  /\ Cardinality(present) >= 2
              /\ ListKeys(P \o << "-" >> \o z) # {}
              /\ \E a, b \in present :
                    /\ a # b
                    /\ Cardinality(ListKeys(P \o << "-" >> \o z))
                          < Cardinality(ListKeys(P \o << "-" >> \o a))
                               + Cardinality(ListKeys(P \o << "-" >> \o b))

\* C26: a request with a valid selection is answered with the same bytes
\* when country codes and zone codes that are not defined, blank tokens,
\* copies of its own tokens in another case and with white space, and custom
\* lines that are malformed or IPv6 are added to it, in both modes.
C26_InvalidTokensChangeNothing ==
    (handler.pc = "done" /\ handler.base # None)
       => /\ ~EmptySelection(handler.base[1], country_nets, ZONE_DEFS)
          /\ handler.response # None
          /\ handler.prev_response # None
          /\ Content(Response) = Content(handler.prev_response[1])

\* C26 witness: a script answers a request with two country tokens, two zone
\* tokens and custom lines, one country token and one zone token of them
\* valid, to which invalid tokens were added.
C26_Witness ==
    /\ Answered
    /\ handler.base # None
    /\ IsScript(Response)
    /\ Len(handler.base[1].cc) = 2
    /\ Cardinality(SelectedCountries(handler.base[1], country_nets)) = 1
    /\ Len(handler.base[1].zone) = 2
    /\ Cardinality(SelectedZones(handler.base[1], ZONE_DEFS)) = 1
    /\ CustomNets(handler.base[1]) # {}
    /\ Len(handler.req.cc) > Len(handler.base[1].cc)
    /\ \E i \in AddIndices(Response) : Response[i].list # << >>

\* The network a key is the text of
NetOfKey(k) == CHOOSE n \in AllNets : WithPrefixlen(n) = k

\* The networks the sources of a single-list request hold
SourceNets ==
    UNION { Range(country_nets[c]) : c \in SelectedCountries(handler.req, country_nets) }
       \cup UNION { ZoneNetsPresent(z, country_nets, ZONE_DEFS) :
                       z \in SelectedZones(handler.req, ZONE_DEFS) }
       \cup CustomNets(handler.req)

\* C30: the add lines of a single-list script cover exactly the addresses of
\* the networks of the selected countries, of the members of the selected
\* zones that the catalog holds, and of the valid custom networks, with
\* aggregate set or not.
C30_SingleListCoverage ==
    (handler.pc = "done" /\ handler.req.endpoint = "custom" /\ handler.response # None
        /\ IsScript(Response))
       => UNION { Addresses(NetOfKey(Response[i].address)) : i \in AddIndices(Response) }
             = UNION { Addresses(n) : n \in SourceNets }

\* C30 witness: an aggregated single-list script for two countries that
\* offer the same key, which is written once, and custom networks; it has
\* fewer add lines than its sources have networks.
C30_Witness ==
    /\ Answered
    /\ handler.req.endpoint = "custom"
    /\ IsScript(Response)
    /\ Aggregating
    /\ CustomNets(handler.req) # {}
    /\ \E c, d \in SelectedCountries(handler.req, country_nets) :
          /\ c # d
          /\ CountryKeys(c) \cap CountryKeys(d) # {}
    /\ Cardinality(AddIndices(Response)) < Cardinality(SourceNets)

\* ------------------------------------------------------------------------
\* Properties of the helper functions (SpecFn)
\* ------------------------------------------------------------------------

\* The str a caller supplied, trimmed; empty when absent
TrimmedArg == IF call.args[1] = None THEN << >> ELSE Strip(call.args[1][1])

\* C11: normalize_list_name returns a non-empty str of at most 63
\* characters, all in [A-Za-z0-9_-]; it is "geoip" when the input is absent
\* or blank, and else the trimmed input cut at 63 characters with each
\* invalid character replaced by an underscore.
C11_ListNameNormalized ==
    call.fn = "normalize_list_name"
       => LET r == call.result
          IN  /\ r # << >>
              /\ Len(r) <= ListNameMax
              /\ \A i \in 1..Len(r) : r[i] \in NameChars
              /\ TrimmedArg = << >> => Join(r) = "geoip"
              /\ TrimmedArg # << >>
                    => /\ Len(r) = (IF Len(TrimmedArg) < ListNameMax
                                    THEN Len(TrimmedArg) ELSE ListNameMax)
                       /\ \A i \in 1..Len(r) :
                             r[i] = (IF TrimmedArg[i] \in NameChars THEN TrimmedArg[i]
                                     ELSE "_")

\* C11 witness: a list name longer than 63 characters with an invalid
\* character comes back 63 characters long with an underscore in its place.
C11_Witness ==
    /\ call.fn = "normalize_list_name"
    /\ Len(TrimmedArg) > ListNameMax
    /\ TrimmedArg[ListNameMax] = "!"
    /\ Len(call.result) = ListNameMax
    /\ call.result[ListNameMax] = "_"

\* C12: normalize_prefix returns a non-empty str of at most 40 characters,
\* all in [A-Za-z0-9_-], that does not end with a hyphen.
C12_PrefixNormalized ==
    call.fn = "normalize_prefix"
       => LET r == call.result
          IN  /\ r # << >>
              /\ Len(r) <= PrefixMax
              /\ \A i \in 1..Len(r) : r[i] \in NameChars
              /\ r[Len(r)] # "-"

\* C14: after a run of load_zone_defs the zone registry is not empty,
\* whatever the zones file and the legacy config file hold.
C14_ZoneRegistryNeverEmpty ==
    call.fn = "load_zone_defs" => DOMAIN ZONE_DEFS # {}

\* A call of maybe_collapse_networks: its list of networks, its flag
CollapseCalled == call.fn = "maybe_collapse_networks"

NetsArg == call.args[1]

AggregateArg == call.args[2]

\* The addresses a list of networks covers
Covered(nets) == UNION { Addresses(nets[i]) : i \in DOMAIN nets }

\* C15: collapsing is idempotent: collapsing the result of a collapse gives
\* that result again.
C15_CollapseIdempotent ==
    (CollapseCalled /\ AggregateArg)
       => maybe_collapse_networks(call.result, TRUE) = call.result

\* C15 witness: three distinct networks collapse to one network that is
\* shorter than each of them.
C15_Witness ==
    /\ CollapseCalled
    /\ AggregateArg
    /\ Cardinality(Range(NetsArg)) = 3
    /\ Len(call.result) = 1
    /\ \A i \in DOMAIN NetsArg : call.result[1].prefixlen < NetsArg[i].prefixlen

\* C16: the result of maybe_collapse_networks covers the addresses its input
\* covers, no more and no less, with and without collapsing.
C16_CollapseKeepsAddresses ==
    CollapseCalled => Covered(call.result) = Covered(NetsArg)

\* C16 witness: a collapse of a network, a network inside it and a network
\* apart from both gives fewer networks that cover the same addresses.
C16_Witness ==
    /\ CollapseCalled
    /\ AggregateArg
    /\ Len(NetsArg) = 3
    /\ Len(call.result) = 2
    /\ \E i, j \in DOMAIN NetsArg :
          /\ NetsArg[i] # NetsArg[j]
          /\ Addresses(NetsArg[i]) \subseteq Addresses(NetsArg[j])
    /\ Covered(call.result) = Covered(NetsArg)
    /\ Covered(NetsArg) # 0..7

\* The networks of a list in the order of IPv4Network.__lt__, each as often
\* as the list holds it
RECURSIVE InsertNet(_, _)
InsertNet(sorted, n) ==
    IF sorted = << >> THEN << n >>
    ELSE IF NetLess(n, Head(sorted)) THEN << n >> \o sorted
    ELSE << Head(sorted) >> \o InsertNet(Tail(sorted), n)

RECURSIVE CanonicalOrder(_)
CanonicalOrder(nets) ==
    IF nets = << >> THEN << >>
    ELSE InsertNet(CanonicalOrder(Tail(nets)), Head(nets))

\* C17: maybe_collapse_networks gives the same sequence for every ordering
\* of the same networks: the one it gives for them in canonical order.
C17_CollapseOrderIndependent ==
    CollapseCalled
       => call.result = maybe_collapse_networks(CanonicalOrder(NetsArg), AggregateArg)

\* A str without a lower-case letter, and one without an upper-case letter
NoLowerLetter(t) == \A i \in 1..Len(t) : t[i] \notin Range(LowerLetters)

NoUpperLetter(t) == \A i \in 1..Len(t) : t[i] \notin Range(UpperLetters)

\* C25: every zone code of the zone registry that load_zone_defs publishes is
\* upper-case and not empty, its list of members is not empty, and every
\* member is a lower-case two-letter code.
C25_ZoneRegistryWellFormed ==
    call.fn = "load_zone_defs"
       => \A z \in DOMAIN ZONE_DEFS :
             /\ z # << >>
             /\ NoLowerLetter(z)
             /\ ZONE_DEFS[z] # << >>
             /\ \A i \in DOMAIN ZONE_DEFS[z] :
                   /\ NoUpperLetter(ZONE_DEFS[z][i])
                   /\ Len(ZONE_DEFS[z][i]) = 2
                   /\ IsAlpha(ZONE_DEFS[z][i])

====
